---- MODULE Spec2Model ----
(***************************************************************************)
(* A model of shop_bot.py: the SQLite store (users, settings, categories,  *)
(* subcategories, products, purchase_methods), the per-user FSM context    *)
(* kept by aiogram's MemoryStorage, and the router's handlers.             *)
(*                                                                         *)
(* Every store access of the source opens its own connection, turns        *)
(* foreign keys on and commits: one db_* call is one SQLite transaction    *)
(* and is atomic.  A handler is one action, taken at the commit point of   *)
(* its single write.  The two handlers that make two dependent store       *)
(* accesses with a suspension between them (start: read role, write role;  *)
(* st_pm_btn: insert product, upsert purchase method) are two actions      *)
(* each, with the invocation waiting in `tasks` between them: the          *)
(* dispatcher polls with one asyncio task per update and no event          *)
(* isolation, so other handlers run in between.                            *)
(*                                                                         *)
(* Text is a sequence of tokens: " " is whitespace, "0".."9" are digits,   *)
(* "-" is the skip sentinel, "@" the handle prefix, "/start", "/admin",    *)
(* "/id" stand for the command words.                                      *)
(***************************************************************************)
EXTENDS Integers, Sequences, FiniteSets, TLC

VARIABLES db, fsm, tasks, ev, hist

vars == <<db, fsm, tasks, ev, hist>>

\* ------------------------------------------------------------------ bounds
\* Rows ever inserted into one AUTOINCREMENT table.
MaxRows == 2
\* Handler invocations suspended between two store accesses.
MaxTasks == 2

\* ------------------------------------------------------------------ config
OWNER_ID == 1831731188

\* The identities that send events; 2 and 3 are ordinary Telegram users.
Uids == {OWNER_ID, 2, 3}

DEFAULT_SETTINGS ==
    [k \in {"start_text", "support_text", "group_welcome_text", "group_welcome_button"} |->
        <<k>>]

\* ------------------------------------------------------------------ text
Digits == {"0", "1", "2", "3", "4", "5", "6", "7", "8", "9"}

DigitVal(c) ==
    CASE c = "0" -> 0 [] c = "1" -> 1 [] c = "2" -> 2 [] c = "3" -> 3 [] c = "4" -> 4
      [] c = "5" -> 5 [] c = "6" -> 6 [] c = "7" -> 7 [] c = "8" -> 8 [] OTHER -> 9

RECURSIVE lstrip(_)
lstrip(s) == IF s # <<>> /\ Head(s) = " " THEN lstrip(Tail(s)) ELSE s

RECURSIVE rstrip(_)
rstrip(s) ==
    IF s # <<>> /\ s[Len(s)] = " " THEN rstrip(SubSeq(s, 1, Len(s) - 1)) ELSE s

\* str.strip()
strip(s) == rstrip(lstrip(s))

isdigit_mut_any(s) == s # <<>>

\* str.isdigit(): false on the empty string
isdigit(s) == s # <<>> /\ \A i \in 1..Len(s) : s[i] \in Digits

\* int(txt) of a string of digits
RECURSIVE int(_)
int(s) == IF s = <<>> THEN 0 ELSE 10 * int(SubSeq(s, 1, Len(s) - 1)) + DigitVal(s[Len(s)])

\* The decimal text of OWNER_ID, as a user types it.
OwnerText == <<"1", "8", "3", "1", "7", "3", "1", "1", "8", "8">>

\* ------------------------------------------------------------------ messages
\* A Message: m.text is None unless kind = "text"; m.photo / m.video carry a file id.
TextMsg(s) == [kind |-> "text", text |-> s, file |-> ""]
PhotoMsg(f) == [kind |-> "photo", text |-> <<>>, file |-> f]
VideoMsg(f) == [kind |-> "video", text |-> <<>>, file |-> f]
OtherMsg == [kind |-> "other", text |-> <<>>, file |-> ""]

\* (m.text or "")
text_or_empty(m) == IF m.kind = "text" THEN m.text ELSE <<>>

\* The command filters, registered before every state filter: CommandStart(),
\* Command("id"), Command("admin").
IsCommand(m, word) == m.kind = "text" /\ m.text # <<>> /\ Head(m.text) = word

IsAnyCommand(m) == IsCommand(m, "/start") \/ IsCommand(m, "/id") \/ IsCommand(m, "/admin")

\* ------------------------------------------------------------------ store
EmptyFn == [x \in {} |-> 0]

EmptyDb ==
    [users |-> EmptyFn, settings |-> EmptyFn, categories |-> EmptyFn,
     subcategories |-> EmptyFn, products |-> EmptyFn, purchase_methods |-> EmptyFn,
     seq |-> [categories |-> 0, subcategories |-> 0, products |-> 0]]

\* INSERT ... ON CONFLICT DO UPDATE on a table keyed by k
Upsert(f, k, v) == [x \in DOMAIN f \cup {k} |-> IF x = k THEN v ELSE f[x]]

\* rows of f whose key is not in gone
Without(f, gone) == [x \in DOMAIN f \ gone |-> f[x]]

db_init_mut_overwrite(d) ==
    [d EXCEPT !.users = Upsert(d.users, OWNER_ID, "owner"),
              !.settings =
                  [k \in DOMAIN d.settings \cup DOMAIN DEFAULT_SETTINGS |->
                      IF k \in DOMAIN DEFAULT_SETTINGS THEN DEFAULT_SETTINGS[k]
                      ELSE d.settings[k]]]

\* CREATE TABLE IF NOT EXISTS ...; upsert (OWNER_ID, 'owner'); insert each default
\* setting ON CONFLICT DO NOTHING.
db_init(d) ==
    [d EXCEPT !.users = Upsert(d.users, OWNER_ID, "owner"),
              !.settings =
                  [k \in DOMAIN d.settings \cup DOMAIN DEFAULT_SETTINGS |->
                      IF k \in DOMAIN d.settings THEN d.settings[k] ELSE DEFAULT_SETTINGS[k]]]

\* SELECT value FROM settings WHERE key=?; without a row DEFAULT_SETTINGS.get(key, "")
db_get_setting(d, key) ==
    IF key \in DOMAIN d.settings THEN d.settings[key]
    ELSE IF key \in DOMAIN DEFAULT_SETTINGS THEN DEFAULT_SETTINGS[key]
    ELSE <<>>

\* INSERT INTO settings(key, value) VALUES(?, ?) ON CONFLICT(key) DO UPDATE
db_set_setting(d, key, value) == [d EXCEPT !.settings = Upsert(d.settings, key, value)]

db_get_role(d, user_id) ==
    IF user_id \in DOMAIN d.users THEN d.users[user_id] ELSE "user"

db_set_role(d, user_id, role) == [d EXCEPT !.users = Upsert(d.users, user_id, role)]

role_rank_mut_swap(role) ==
    CASE role = "user" -> 0 [] role = "mod" -> 2 [] role = "admin" -> 1
      [] role = "owner" -> 3 [] OTHER -> 0

\* {"user": 0, "mod": 1, "admin": 2, "owner": 3}.get(role, 0)
role_rank(role) ==
    CASE role = "user" -> 0 [] role = "mod" -> 1 [] role = "admin" -> 2
      [] role = "owner" -> 3 [] OTHER -> 0

require_min_role(d, user_id, min_role) ==
    role_rank(db_get_role(d, user_id)) >= role_rank(min_role)

\* ---------- catalog
\* AUTOINCREMENT: the next id is one more than the largest id the table ever held.
NextId(d, tbl) == d.seq[tbl] + 1

\* The model stops inserting into a table after MaxRows rows.
CanInsert(d, tbl) == d.seq[tbl] < MaxRows

RECURSIVE OrderBySortId_mut_idonly(_, _)
OrderBySortId_mut_idonly(tbl, ids) ==
    IF ids = {} THEN <<>>
    ELSE LET first == CHOOSE i \in ids : \A j \in ids : i <= j
         IN  <<first>> \o OrderBySortId_mut_idonly(tbl, ids \ {first})

\* ids ordered by (sort, id)
RECURSIVE OrderBySortId(_, _)
OrderBySortId(tbl, ids) ==
    IF ids = {} THEN <<>>
    ELSE LET first == CHOOSE i \in ids : \A j \in ids :
                          \/ tbl[i].sort < tbl[j].sort
                          \/ (tbl[i].sort = tbl[j].sort /\ i <= j)
         IN  <<first>> \o OrderBySortId(tbl, ids \ {first})

\* SELECT id, title FROM categories ORDER BY sort, id
db_get_categories(d) ==
    LET o == OrderBySortId(d.categories, DOMAIN d.categories)
    IN  [i \in 1..Len(o) |-> <<o[i], d.categories[o[i]].title>>]

db_rename_category_mut_all(d, category_id, title) ==
    [d EXCEPT !.categories = [c \in DOMAIN d.categories |-> [d.categories[c] EXCEPT !.title = title]]]

db_rename_category(d, category_id, title) ==
    IF category_id \in DOMAIN d.categories
      THEN [d EXCEPT !.categories[category_id].title = title]
      ELSE d

SubsOf(d, cats) == {x \in DOMAIN d.subcategories : d.subcategories[x].category_id \in cats}

ProdsOf(d, subs) == {x \in DOMAIN d.products : d.products[x].subcategory_id \in subs}

db_delete_category_mut_nocascade(d, category_id) ==
    [d EXCEPT !.categories = Without(@, {category_id})]

\* DELETE FROM categories WHERE id=?, foreign keys on: ON DELETE CASCADE takes the
\* subcategories, their products and the products' purchase methods in the same
\* transaction.
db_delete_category(d, category_id) ==
    LET subs == SubsOf(d, {category_id})
        prods == ProdsOf(d, subs)
    IN  [d EXCEPT !.categories = Without(@, {category_id}),
                  !.subcategories = Without(@, subs),
                  !.products = Without(@, prods),
                  !.purchase_methods = Without(@, prods)]

\* SELECT id, title FROM subcategories WHERE category_id=? ORDER BY sort, id
db_get_subcategories(d, category_id) ==
    LET o == OrderBySortId(d.subcategories, SubsOf(d, {category_id}))
    IN  [i \in 1..Len(o) |-> <<o[i], d.subcategories[o[i]].title>>]

db_delete_subcategory_mut_siblings(d, subcategory_id) == IF subcategory_id \in DOMAIN d.subcategories THEN [d EXCEPT !.subcategories = Without(@, SubsOf(d, {d.subcategories[subcategory_id].category_id})), !.products = Without(@, ProdsOf(d, SubsOf(d, {d.subcategories[subcategory_id].category_id}))), !.purchase_methods = Without(@, ProdsOf(d, SubsOf(d, {d.subcategories[subcategory_id].category_id})))] ELSE d

\* DELETE FROM subcategories WHERE id=?, cascading
db_delete_subcategory(d, subcategory_id) ==
    LET prods == ProdsOf(d, {subcategory_id})
    IN  [d EXCEPT !.subcategories = Without(@, {subcategory_id}),
                  !.products = Without(@, prods),
                  !.purchase_methods = Without(@, prods)]

db_get_products_mut_all(d, subcategory_id, include_inactive) ==
    LET o == OrderBySortId(d.products, ProdsOf(d, {subcategory_id}))
    IN  [i \in 1..Len(o) |->
            <<o[i], d.products[o[i]].title, d.products[o[i]].price, d.products[o[i]].is_active>>]

\* SELECT id, title, price, is_active FROM products WHERE subcategory_id=?
\* [AND is_active=1] ORDER BY sort, id
db_get_products(d, subcategory_id, include_inactive) ==
    LET ids == {x \in ProdsOf(d, {subcategory_id}) :
                    include_inactive \/ d.products[x].is_active = 1}
        o == OrderBySortId(d.products, ids)
    IN  [i \in 1..Len(o) |->
            <<o[i], d.products[o[i]].title, d.products[o[i]].price, d.products[o[i]].is_active>>]

\* db_get_product(product_id) is not None
has_product(d, product_id) == product_id \in DOMAIN d.products

\* DELETE FROM products WHERE id=?, cascading
db_delete_product(d, product_id) ==
    [d EXCEPT !.products = Without(@, {product_id}),
              !.purchase_methods = Without(@, {product_id})]

\* db_get_purchase_method(product_id) is not None
has_purchase_method(d, product_id) == product_id \in DOMAIN d.purchase_methods

\* json.dumps(payload): the dict's items in insertion order
json_dumps(payload) ==
    IF "url" \in DOMAIN payload THEN << <<"url", payload["url"]>> >>
    ELSE IF "username" \in DOMAIN payload
      THEN << <<"username", payload["username"]>>, <<"template", payload["template"]>> >>
    ELSE << <<"text", payload["text"]>> >>

\* json.loads(payload_str)
json_loads(str) ==
    [k \in {str[i][1] : i \in 1..Len(str)} |->
        LET i == CHOOSE j \in 1..Len(str) : str[j][1] = k IN str[i][2]]

\* FOREIGN KEY(product_id) REFERENCES products(id): the insert raises IntegrityError
\* when the product is missing.
fk_purchase_method(d, product_id) == product_id \in DOMAIN d.products

db_upsert_purchase_method_mut_keep(d, product_id, method_type, payload, button_text) ==
    IF product_id \in DOMAIN d.purchase_methods THEN d
    ELSE [d EXCEPT !.purchase_methods =
             Upsert(@, product_id,
                    [method_type |-> method_type, payload |-> json_dumps(payload),
                     button_text |-> button_text])]

\* INSERT INTO purchase_methods ... ON CONFLICT(product_id) DO UPDATE
db_upsert_purchase_method(d, product_id, method_type, payload, button_text) ==
    [d EXCEPT !.purchase_methods =
        Upsert(@, product_id,
               [method_type |-> method_type, payload |-> json_dumps(payload),
                button_text |-> button_text])]

\* INSERT INTO categories(title) VALUES(?)
db_add_category(d, title) ==
    [d EXCEPT !.categories = Upsert(@, NextId(d, "categories"), [title |-> title, sort |-> 0]),
              !.seq.categories = @ + 1]

fk_subcategory_mut_off(d, category_id) == TRUE

\* FOREIGN KEY(category_id) REFERENCES categories(id)
fk_subcategory(d, category_id) == category_id \in DOMAIN d.categories

\* INSERT INTO subcategories(category_id, title) VALUES(?, ?)
db_add_subcategory(d, category_id, title) ==
    [d EXCEPT !.subcategories =
                  Upsert(@, NextId(d, "subcategories"),
                         [category_id |-> category_id, title |-> title, sort |-> 0]),
              !.seq.subcategories = @ + 1]

\* FOREIGN KEY(subcategory_id) REFERENCES subcategories(id)
fk_product(d, subcategory_id) == subcategory_id \in DOMAIN d.subcategories

db_add_product_mut_inactive(d, subcategory_id, title, price, description, media_type, media_file_id) ==
    [d EXCEPT !.products =
                  Upsert(@, NextId(d, "products"),
                         [subcategory_id |-> subcategory_id, title |-> title, price |-> price,
                          description |-> description, media_type |-> media_type,
                          media_file_id |-> media_file_id, is_active |-> 0, sort |-> 0]),
              !.seq.products = @ + 1]

\* INSERT INTO products(...) VALUES(...); is_active and sort take their defaults
db_add_product(d, subcategory_id, title, price, description, media_type, media_file_id) ==
    [d EXCEPT !.products =
                  Upsert(@, NextId(d, "products"),
                         [subcategory_id |-> subcategory_id, title |-> title, price |-> price,
                          description |-> description, media_type |-> media_type,
                          media_file_id |-> media_file_id, is_active |-> 1, sort |-> 0]),
              !.seq.products = @ + 1]

db_toggle_product_active_mut_off(d, product_id) == IF product_id \in DOMAIN d.products THEN [d EXCEPT !.products[product_id].is_active = 0] ELSE d

\* UPDATE products SET is_active = CASE WHEN is_active=1 THEN 0 ELSE 1 END WHERE id=?
db_toggle_product_active(d, product_id) ==
    IF product_id \in DOMAIN d.products
      THEN [d EXCEPT !.products[product_id].is_active = IF @ = 1 THEN 0 ELSE 1]
      ELSE d

\* UPDATE products SET <k>=?, ... WHERE id=?
db_update_product_fields(d, product_id, fields) ==
    IF product_id \in DOMAIN d.products
      THEN [d EXCEPT !.products[product_id] =
                [k \in DOMAIN @ |-> IF k \in DOMAIN fields THEN fields[k] ELSE @[k]]]
      ELSE d

\* ------------------------------------------------------------------ FSM context
\* MemoryStorage: state None and data {} until set.
NoState == "None"

FreshFsm == [u \in Uids |-> [state |-> NoState, data |-> EmptyFn]]

set_state_mut_shared(f, u, s) == [x \in DOMAIN f |-> [f[x] EXCEPT !.state = s]]

\* state.set_state(s): the context is keyed by (chat, user)
set_state(f, u, s) == [f EXCEPT ![u].state = s]

\* state.update_data(k=v)
update_data(f, u, k, v) == [f EXCEPT ![u].data = Upsert(@, k, v)]

\* state.clear(): state None, data {}
clear(f, u) == [f EXCEPT ![u] = [state |-> NoState, data |-> EmptyFn]]

\* ------------------------------------------------------------------ events
\* The last step: its kind ("msg" a message, "cb" a callback query, "task" a
\* suspended handler resumed, "call" a call of the gate, "sys" the process start),
\* who sent the event, which handler took it, how it answered, the event's input
\* (the message, the callback's argument, the role the gate was asked for) and what
\* the handler showed (the rows of a listing, the buttons of a product view).
Event(k, u, h, out, a, v) == [k |-> k, u |-> u, h |-> h, out |-> out, a |-> a, v |-> v]

EvM(u, h, out, m) == Event("msg", u, h, out, m, <<>>)

EvC(u, h, out, a) == Event("cb", u, h, out, a, <<>>)

EvCV(u, h, out, a, v) == Event("cb", u, h, out, a, v)

EvT(u, h, out, a) == Event("task", u, h, out, a, <<>>)

Ev(u, h, out) == EvC(u, h, out, "")

\* Handlers that leave a form's vocabulary: the home and back buttons, the shop
\* flow, /start and /admin.
NavHandlers ==
    {"cb_home", "cb_adm_back", "cmd_admin", "start", "cb_catalog", "cb_category",
     "cb_subcategory", "cb_product"}

\* Handlers that open a form.
EntryHandlers ==
    {"cb_add_cat", "cb_add_sub", "cb_add_product", "cb_role_action", "cb_cat_rename",
     "cb_edit_product", "cb_setbuy_start", "cb_txt_pick"}

\* hist.abandoned: for each user who sent a navigation event while a form was open
\* and has neither opened a form nor had the context cleared since, the step the
\* form was on at the (first such) navigation event.
\* hist.granted: for each user the owner's role form has written, the role of its
\* last committed grant or revoke; it outlives a restart as the users table does.
\* Both record the run; no handler reads them.
Track ==
    hist' = [abandoned |->
                IF ev'.h \in NavHandlers /\ fsm[ev'.u].state # NoState
                  THEN IF ev'.u \in DOMAIN hist.abandoned THEN hist.abandoned
                       ELSE Upsert(hist.abandoned, ev'.u, fsm[ev'.u].state)
                ELSE IF fsm'[ev'.u].state = NoState \/ (ev'.h \in EntryHandlers /\ ev'.out = "ok")
                  THEN Without(hist.abandoned, {ev'.u})
                ELSE hist.abandoned,
             granted |->
                IF ev'.h = "st_role_user_id" /\ ev'.out = "ok"
                  THEN Upsert(hist.granted, int(strip(text_or_empty(ev'.a))), "user")
                ELSE IF ev'.h = "cb_set_role" /\ ev'.out = "ok"
                  THEN Upsert(hist.granted, fsm[ev'.u].data["target_user_id"], ev'.a)
                ELSE hist.granted]

NoHist == [abandoned |-> EmptyFn, granted |-> EmptyFn]

NoTasks == {}

Init ==
    /\ db = db_init(EmptyDb)
    /\ fsm = FreshFsm
    /\ tasks = NoTasks
    /\ ev = Event("sys", OWNER_ID, "db_init", "ok", "", <<>>)
    /\ hist = NoHist

\* main(): the process starts again on the same database file; MemoryStorage and
\* the suspended handlers are gone.
main ==
    /\ db' = db_init(db)
    /\ fsm' = FreshFsm
    /\ tasks' = NoTasks
    /\ ev' = Event("sys", OWNER_ID, "db_init", "ok", "", <<>>)
    /\ hist' = [NoHist EXCEPT !.granted = hist.granted]

\* A call of the authorization gate with an arbitrary required role.
gate(u, min_role) ==
    /\ ev' = Event("call", u, "require_min_role",
                    IF require_min_role(db, u, min_role) THEN "allowed" ELSE "refused",
                    min_role, <<>>)
    /\ UNCHANGED <<db, fsm, tasks>>
    /\ Track

\* ------------------------------------------------------------------ start
StartTask(u) ==
    [h |-> "start", u |-> u, pid |-> 0, ptype |-> "", payload |-> EmptyFn, btn |-> <<>>]

\* start, up to its first write: the owner's role is written at once; for anybody
\* else the role is read, and the write of 'user' follows in its own transaction.
start(u, m) ==
    /\ IsCommand(m, "/start")
    /\ IF u = OWNER_ID
         THEN /\ db' = db_set_role(db, u, "owner")
              /\ tasks' = tasks
              /\ ev' = EvM(u, "start", "ok", m)
         ELSE IF db_get_role(db, u) = "user"
           THEN /\ Cardinality(tasks) < MaxTasks
                /\ tasks' = tasks \cup {StartTask(u)}
                /\ db' = db
                /\ ev' = EvM(u, "start", "read_user", m)
           ELSE /\ UNCHANGED <<db, tasks>>
                /\ ev' = EvM(u, "start", "ok", m)
    /\ fsm' = fsm
    /\ Track

\* start, resumed: db_set_role(uid, "user")
start_set_role(t) ==
    /\ t \in tasks /\ t.h = "start"
    /\ db' = db_set_role(db, t.u, "user")
    /\ tasks' = tasks \ {t}
    /\ ev' = EvT(t.u, "start", "ok", "")
    /\ fsm' = fsm
    /\ Track

\* ------------------------------------------------------------------ admin entry
\* cmd_admin: /admin, in any state (the command filters come first)
cmd_admin(u, m) ==
    /\ IsCommand(m, "/admin") /\ ~IsCommand(m, "/start") /\ ~IsCommand(m, "/id")
    /\ ev' = EvM(u, "cmd_admin", IF require_min_role(db, u, "mod") THEN "ok" ELSE "denied", m)
    /\ UNCHANGED <<db, fsm, tasks>>
    /\ Track

\* cb_adm_back: callback "adm_back_admin", in any state; it takes no FSMContext
cb_adm_back(u) ==
    /\ ev' = Ev(u, "cb_adm_back", "ok")
    /\ UNCHANGED <<db, fsm, tasks>>
    /\ Track

\* cb_home: callback "home", in any state; it takes no FSMContext
cb_home(u) ==
    /\ ev' = Ev(u, "cb_home", "ok")
    /\ UNCHANGED <<db, fsm, tasks>>
    /\ Track

\* ------------------------------------------------------------------ owner: roles
\* data.get(k)
HasKey(f, u, k) == k \in DOMAIN f[u].data

\* cb_role_action: callback "role_action:<action>", in any state
cb_role_action(u, action) ==
    /\ IF ~require_min_role(db, u, "owner")
         THEN /\ fsm' = fsm
              /\ ev' = EvC(u, "cb_role_action", "denied", action)
         ELSE /\ fsm' = set_state(update_data(fsm, u, "action", action), u, "RolesManage:user_id")
              /\ ev' = EvC(u, "cb_role_action", "ok", action)
    /\ UNCHANGED <<db, tasks>>
    /\ Track

st_role_user_id_mut_noguard(u, m) ==
    /\ fsm[u].state = "RolesManage:user_id" /\ ~IsAnyCommand(m)
    /\ LET txt == strip(text_or_empty(m))
           uid == int(txt)
       IN  IF ~require_min_role(db, u, "owner")
             THEN /\ UNCHANGED <<db, fsm>>
                  /\ ev' = EvM(u, "st_role_user_id", "silent", m)
           ELSE IF ~isdigit(txt)
             THEN /\ UNCHANGED <<db, fsm>>
                  /\ ev' = EvM(u, "st_role_user_id", "reprompt", m)
           ELSE IF HasKey(fsm, u, "action") /\ fsm[u].data["action"] = "unset"
             THEN /\ db' = db_set_role(db, uid, "user")
                  /\ fsm' = clear(fsm, u)
                  /\ ev' = EvM(u, "st_role_user_id", "ok", m)
           ELSE /\ db' = db
                /\ fsm' = set_state(update_data(fsm, u, "target_user_id", uid), u, "RolesManage:role")
                /\ ev' = EvM(u, "st_role_user_id", "next", m)
    /\ tasks' = tasks
    /\ Track

\* st_role_user_id: a message in state RolesManage.user_id
st_role_user_id(u, m) ==
    /\ fsm[u].state = "RolesManage:user_id" /\ ~IsAnyCommand(m)
    /\ LET txt == strip(text_or_empty(m))
           uid == int(txt)
       IN  IF ~require_min_role(db, u, "owner")
             THEN /\ UNCHANGED <<db, fsm>>
                  /\ ev' = EvM(u, "st_role_user_id", "silent", m)
           ELSE IF ~isdigit(txt)
             THEN /\ UNCHANGED <<db, fsm>>
                  /\ ev' = EvM(u, "st_role_user_id", "reprompt", m)
           ELSE IF uid = OWNER_ID /\ ~(HasKey(fsm, u, "action") /\ fsm[u].data["action"] = "set")
             THEN /\ UNCHANGED <<db, fsm>>
                  /\ ev' = EvM(u, "st_role_user_id", "owner_protected", m)
           ELSE IF HasKey(fsm, u, "action") /\ fsm[u].data["action"] = "unset"
             THEN /\ db' = db_set_role(db, uid, "user")
                  /\ fsm' = clear(fsm, u)
                  /\ ev' = EvM(u, "st_role_user_id", "ok", m)
           ELSE /\ db' = db
                /\ fsm' = set_state(update_data(fsm, u, "target_user_id", uid), u, "RolesManage:role")
                /\ ev' = EvM(u, "st_role_user_id", "next", m)
    /\ tasks' = tasks
    /\ Track

\* cb_set_role: callback "setrole:<role>" in state RolesManage.role
cb_set_role(u, role) ==
    /\ fsm[u].state = "RolesManage:role"
    /\ IF ~require_min_role(db, u, "owner")
         THEN /\ UNCHANGED <<db, fsm>>
              /\ ev' = EvC(u, "cb_set_role", "denied", role)
       ELSE IF ~HasKey(fsm, u, "target_user_id")
         THEN /\ UNCHANGED <<db, fsm>>
              /\ ev' = EvC(u, "cb_set_role", "error", role)
       ELSE IF fsm[u].data["target_user_id"] = OWNER_ID
         THEN /\ UNCHANGED <<db, fsm>>
              /\ ev' = EvC(u, "cb_set_role", "owner_protected", role)
       ELSE /\ db' = db_set_role(db, fsm[u].data["target_user_id"], role)
            /\ fsm' = clear(fsm, u)
            /\ ev' = EvC(u, "cb_set_role", "ok", role)
    /\ tasks' = tasks
    /\ Track

\* ------------------------------------------------------------------ dispatch
\* The states that have a message handler.
MessageStates ==
    {"AddCategory:title", "AddSubcategory:title", "AddProduct:title", "AddProduct:price",
     "AddProduct:description", "AddProduct:media", "AddProduct:purchase_payload",
     "AddProduct:purchase_button_text", "EditCategory:new_title",
     "EditSubcategory:new_title", "EditProduct:value", "SetBuy:purchase_payload",
     "SetBuy:purchase_button_text", "EditTexts:value", "RolesManage:user_id"}

\* A message that is no command, in a state without a message handler: no handler
\* takes it.
unhandled_message(u, m) ==
    /\ ~IsAnyCommand(m) /\ fsm[u].state \notin MessageStates
    /\ ev' = EvM(u, "unhandled", "ignored", m)
    /\ UNCHANGED <<db, fsm, tasks>>
    /\ Track

\* data[k] for every k of keys: a missing key raises KeyError
HasKeys(f, u, keys) == keys \subseteq DOMAIN f[u].data

\* ------------------------------------------------------------------ add category
\* cb_add_cat: callback "adm_add_cat", in any state
cb_add_cat(u) ==
    /\ IF ~require_min_role(db, u, "admin")
         THEN /\ fsm' = fsm
              /\ ev' = Ev(u, "cb_add_cat", "denied")
         ELSE /\ fsm' = set_state(fsm, u, "AddCategory:title")
              /\ ev' = Ev(u, "cb_add_cat", "ok")
    /\ UNCHANGED <<db, tasks>>
    /\ Track

\* st_add_cat_title: a message in state AddCategory.title
st_add_cat_title(u, m) ==
    /\ fsm[u].state = "AddCategory:title" /\ ~IsAnyCommand(m)
    /\ CanInsert(db, "categories")
    /\ LET title == strip(text_or_empty(m))
       IN  IF ~require_min_role(db, u, "admin")
             THEN /\ UNCHANGED <<db, fsm>>
                  /\ ev' = EvM(u, "st_add_cat_title", "silent", m)
           ELSE IF title = <<>>
             THEN /\ UNCHANGED <<db, fsm>>
                  /\ ev' = EvM(u, "st_add_cat_title", "reprompt", m)
           ELSE /\ db' = db_add_category(db, title)
                /\ fsm' = clear(fsm, u)
                /\ ev' = EvM(u, "st_add_cat_title", "ok", m)
    /\ tasks' = tasks
    /\ Track

\* ------------------------------------------------------------------ add subcategory
\* cb_add_sub: callback "adm_add_sub", in any state
cb_add_sub(u) ==
    /\ IF ~require_min_role(db, u, "admin")
         THEN /\ fsm' = fsm
              /\ ev' = Ev(u, "cb_add_sub", "denied")
       ELSE IF db_get_categories(db) = <<>>
         THEN /\ fsm' = fsm
              /\ ev' = Ev(u, "cb_add_sub", "no_categories")
       ELSE /\ fsm' = set_state(fsm, u, "AddSubcategory:pick_category")
            /\ ev' = EvCV(u, "cb_add_sub", "ok", "", db_get_categories(db))
    /\ UNCHANGED <<db, tasks>>
    /\ Track

\* cb_pick_cat_for_sub: callback "adm_pick_cat_for_sub:<cid>" in state
\* AddSubcategory.pick_category
cb_pick_cat_for_sub(u, cid) ==
    /\ fsm[u].state = "AddSubcategory:pick_category"
    /\ fsm' = set_state(update_data(fsm, u, "category_id", cid), u, "AddSubcategory:title")
    /\ ev' = EvC(u, "cb_pick_cat_for_sub", "next", cid)
    /\ UNCHANGED <<db, tasks>>
    /\ Track

\* st_add_sub_title: a message in state AddSubcategory.title
st_add_sub_title(u, m) ==
    /\ fsm[u].state = "AddSubcategory:title" /\ ~IsAnyCommand(m)
    /\ CanInsert(db, "subcategories")
    /\ LET title == strip(text_or_empty(m))
       IN  IF ~require_min_role(db, u, "admin")
             THEN /\ UNCHANGED <<db, fsm>>
                  /\ ev' = EvM(u, "st_add_sub_title", "silent", m)
           ELSE IF title = <<>>
             THEN /\ UNCHANGED <<db, fsm>>
                  /\ ev' = EvM(u, "st_add_sub_title", "reprompt", m)
           ELSE IF ~HasKeys(fsm, u, {"category_id"})
             THEN /\ UNCHANGED <<db, fsm>>
                  /\ ev' = EvM(u, "st_add_sub_title", "KeyError", m)
           ELSE IF ~fk_subcategory(db, fsm[u].data["category_id"])
             THEN /\ UNCHANGED <<db, fsm>>
                  /\ ev' = EvM(u, "st_add_sub_title", "IntegrityError", m)
           ELSE /\ db' = db_add_subcategory(db, fsm[u].data["category_id"], title)
                /\ fsm' = clear(fsm, u)
                /\ ev' = EvM(u, "st_add_sub_title", "ok", m)
    /\ tasks' = tasks
    /\ Track

\* ------------------------------------------------------------------ add product
\* cb_add_product: callback "adm_add_product", in any state
cb_add_product(u) ==
    /\ IF ~require_min_role(db, u, "admin")
         THEN /\ fsm' = fsm
              /\ ev' = Ev(u, "cb_add_product", "denied")
       ELSE IF db_get_categories(db) = <<>>
         THEN /\ fsm' = fsm
              /\ ev' = Ev(u, "cb_add_product", "no_categories")
       ELSE /\ fsm' = set_state(fsm, u, "AddProduct:pick_category")
            /\ ev' = EvCV(u, "cb_add_product", "ok", "", db_get_categories(db))
    /\ UNCHANGED <<db, tasks>>
    /\ Track

\* cb_prod_pick_cat: callback "adm_prod_cat:<cid>" in state AddProduct.pick_category
cb_prod_pick_cat(u, cid) ==
    /\ fsm[u].state = "AddProduct:pick_category"
    /\ IF db_get_subcategories(db, cid) = <<>>
         THEN /\ fsm' = fsm
              /\ ev' = EvC(u, "cb_prod_pick_cat", "no_subcategories", cid)
         ELSE /\ fsm' = set_state(fsm, u, "AddProduct:pick_subcategory")
              /\ ev' = EvCV(u, "cb_prod_pick_cat", "next", cid, db_get_subcategories(db, cid))
    /\ UNCHANGED <<db, tasks>>
    /\ Track

\* cb_prod_pick_sub: callback "adm_prod_sub:<cid>:<sid>" in state
\* AddProduct.pick_subcategory
cb_prod_pick_sub(u, cid, sid) ==
    /\ fsm[u].state = "AddProduct:pick_subcategory"
    /\ fsm' = set_state(update_data(update_data(fsm, u, "category_id", cid),
                                    u, "subcategory_id", sid), u, "AddProduct:title")
    /\ ev' = EvC(u, "cb_prod_pick_sub", "next", <<cid, sid>>)
    /\ UNCHANGED <<db, tasks>>
    /\ Track

\* st_prod_title: a message in state AddProduct.title
st_prod_title(u, m) ==
    /\ fsm[u].state = "AddProduct:title" /\ ~IsAnyCommand(m)
    /\ LET title == strip(text_or_empty(m))
       IN  IF title = <<>>
             THEN /\ fsm' = fsm
                  /\ ev' = EvM(u, "st_prod_title", "reprompt", m)
             ELSE /\ fsm' = set_state(update_data(fsm, u, "title", title), u, "AddProduct:price")
                  /\ ev' = EvM(u, "st_prod_title", "next", m)
    /\ UNCHANGED <<db, tasks>>
    /\ Track

\* txt, with the skip sentinel '-' read as the empty string
skip_to_empty(txt) == IF txt = <<"-">> THEN <<>> ELSE txt

\* st_prod_price: a message in state AddProduct.price
st_prod_price(u, m) ==
    /\ fsm[u].state = "AddProduct:price" /\ ~IsAnyCommand(m)
    /\ fsm' = set_state(update_data(fsm, u, "price", skip_to_empty(strip(text_or_empty(m)))),
                        u, "AddProduct:description")
    /\ ev' = EvM(u, "st_prod_price", "next", m)
    /\ UNCHANGED <<db, tasks>>
    /\ Track

\* st_prod_desc: a message in state AddProduct.description
st_prod_desc(u, m) ==
    /\ fsm[u].state = "AddProduct:description" /\ ~IsAnyCommand(m)
    /\ fsm' = set_state(update_data(fsm, u, "description",
                                    skip_to_empty(strip(text_or_empty(m)))),
                        u, "AddProduct:media")
    /\ ev' = EvM(u, "st_prod_desc", "next", m)
    /\ UNCHANGED <<db, tasks>>
    /\ Track

is_skip_mut_never(m) == FALSE

\* m.text and m.text.strip() == "-"
is_skip(m) == m.kind = "text" /\ m.text # <<>> /\ strip(m.text) = <<"-">>

\* st_prod_media: a message in state AddProduct.media
st_prod_media(u, m) ==
    /\ fsm[u].state = "AddProduct:media" /\ ~IsAnyCommand(m)
    /\ IF is_skip(m) \/ m.kind \in {"photo", "video"}
         THEN /\ fsm' = set_state(
                    update_data(update_data(fsm, u, "media_type",
                                            IF is_skip(m) THEN "" ELSE m.kind),
                                u, "media_file_id", IF is_skip(m) THEN "" ELSE m.file),
                    u, "AddProduct:purchase_type")
              /\ ev' = EvM(u, "st_prod_media", "next", m)
         ELSE /\ fsm' = fsm
              /\ ev' = EvM(u, "st_prod_media", "reprompt", m)
    /\ UNCHANGED <<db, tasks>>
    /\ Track

\* cb_pm_type: callback "pm_type:<ptype>" in state AddProduct.purchase_type
cb_pm_type(u, ptype) ==
    /\ fsm[u].state = "AddProduct:purchase_type"
    /\ fsm' = set_state(update_data(fsm, u, "purchase_type", ptype),
                        u, "AddProduct:purchase_payload")
    /\ ev' = EvC(u, "cb_pm_type", "next", ptype)
    /\ UNCHANGED <<db, tasks>>
    /\ Track

MANAGER_TEMPLATE == <<"template", "{product_id}">>

\* the payload dict built from the purchase type and the stripped text
make_payload(ptype, txt) ==
    IF ptype = "link" THEN [k \in {"url"} |-> txt]
    ELSE IF ptype = "manager"
      THEN [k \in {"username", "template"} |->
                IF k = "template" THEN MANAGER_TEMPLATE
                ELSE IF Head(txt) = "@" THEN Tail(txt) ELSE txt]
    ELSE [k \in {"text"} |-> txt]

\* st_pm_payload: a message in state AddProduct.purchase_payload
st_pm_payload(u, m) ==
    /\ fsm[u].state = "AddProduct:purchase_payload" /\ ~IsAnyCommand(m)
    /\ LET txt == strip(text_or_empty(m))
       IN  IF txt = <<>>
             THEN /\ fsm' = fsm
                  /\ ev' = EvM(u, "st_pm_payload", "reprompt", m)
           ELSE IF ~HasKeys(fsm, u, {"purchase_type"})
             THEN /\ fsm' = fsm
                  /\ ev' = EvM(u, "st_pm_payload", "KeyError", m)
           ELSE /\ fsm' = set_state(
                      update_data(fsm, u, "purchase_payload",
                                  make_payload(fsm[u].data["purchase_type"], txt)),
                      u, "AddProduct:purchase_button_text")
                /\ ev' = EvM(u, "st_pm_payload", "next", m)
    /\ UNCHANGED <<db, tasks>>
    /\ Track

BUY_DEFAULT == <<"Kupit">>

\* btn = (m.text or "").strip(); '-' and the empty string give the default label
button_text(m) ==
    LET btn == strip(text_or_empty(m))
    IN  IF btn = <<"-">> \/ btn = <<>> THEN BUY_DEFAULT ELSE btn

PmBtnKeys ==
    {"subcategory_id", "title", "price", "description", "media_type", "media_file_id",
     "purchase_type", "purchase_payload"}

PmTask(u, pid, ptype, payload, btn) ==
    [h |-> "st_pm_btn", u |-> u, pid |-> pid, ptype |-> ptype, payload |-> payload,
     btn |-> btn]

\* st_pm_btn, up to the commit of db_add_product: a message in state
\* AddProduct.purchase_button_text.  It checks no role.
st_pm_btn(u, m) ==
    /\ fsm[u].state = "AddProduct:purchase_button_text" /\ ~IsAnyCommand(m)
    /\ CanInsert(db, "products")
    /\ Cardinality(tasks) < MaxTasks
    /\ LET data == fsm[u].data
       IN  IF ~HasKeys(fsm, u, PmBtnKeys)
             THEN /\ UNCHANGED <<db, tasks>>
                  /\ ev' = EvM(u, "st_pm_btn", "KeyError", m)
           ELSE IF ~fk_product(db, data["subcategory_id"])
             THEN /\ UNCHANGED <<db, tasks>>
                  /\ ev' = EvM(u, "st_pm_btn", "IntegrityError", m)
           ELSE /\ db' = db_add_product(db, data["subcategory_id"], data["title"],
                                        data["price"], data["description"],
                                        data["media_type"], data["media_file_id"])
                /\ tasks' = tasks \cup {PmTask(u, NextId(db, "products"),
                                               data["purchase_type"],
                                               data["purchase_payload"], button_text(m))}
                /\ ev' = EvM(u, "st_pm_btn", "product_added", m)
    /\ fsm' = fsm
    /\ Track

\* st_pm_btn, resumed: db_upsert_purchase_method(new_pid, ...), state.clear() and
\* the confirmation.
st_pm_btn_upsert(t) ==
    /\ t \in tasks /\ t.h = "st_pm_btn"
    /\ tasks' = tasks \ {t}
    /\ IF ~fk_purchase_method(db, t.pid)
         THEN /\ UNCHANGED <<db, fsm>>
              /\ ev' = EvT(t.u, "st_pm_btn", "IntegrityError", t.pid)
         ELSE /\ db' = db_upsert_purchase_method(db, t.pid, t.ptype, t.payload, t.btn)
              /\ fsm' = clear(fsm, t.u)
              /\ ev' = EvT(t.u, "st_pm_btn", "ok", t.pid)
    /\ Track

\* ------------------------------------------------------------------ shop flow
\* kb_products: one button per listed product, labelled title [- price], with the
\* inactive marker in front for staff
INACTIVE_MARK == "(inactive)"

kb_products(d, subcategory_id, is_staff) ==
    LET prods == db_get_products(d, subcategory_id, is_staff)
    IN  [i \in 1..Len(prods) |->
            <<prods[i][1],
              (IF is_staff /\ prods[i][4] # 1 THEN <<INACTIVE_MARK>> ELSE <<>>)
                  \o prods[i][2]
                  \o (IF prods[i][3] # <<>> THEN <<"-">> \o prods[i][3] ELSE <<>>)>>]

\* cb_catalog: callback "catalog", in any state; the category list
cb_catalog(u) ==
    /\ ev' = EvCV(u, "cb_catalog", "ok", "", db_get_categories(db))
    /\ UNCHANGED <<db, fsm, tasks>>
    /\ Track

\* cb_category: callback "cat:<cid>", in any state; the subcategory list
cb_category(u, cid) ==
    /\ ev' = EvCV(u, "cb_category", "ok", cid, db_get_subcategories(db, cid))
    /\ UNCHANGED <<db, fsm, tasks>>
    /\ Track

\* cb_subcategory: callback "sub:<cid>:<sid>", in any state; the product list, with
\* the inactive products for mod and above
cb_subcategory(u, cid, sid) ==
    /\ ev' = EvCV(u, "cb_subcategory", "ok", <<cid, sid>>,
                  kb_products(db, sid, require_min_role(db, u, "mod")))
    /\ UNCHANGED <<db, fsm, tasks>>
    /\ Track

\* cb_product: callback "prod:<cid>:<sid>:<pid>", in any state; the view tells
\* whether the buy button is shown
cb_product(u, pid) ==
    /\ IF ~has_product(db, pid)
         THEN ev' = EvC(u, "cb_product", "not_found", pid)
       ELSE IF db.products[pid].is_active # 1 /\ ~require_min_role(db, u, "mod")
         THEN ev' = EvC(u, "cb_product", "unavailable", pid)
       ELSE ev' = EvCV(u, "cb_product", "ok", pid,
                      <<IF has_purchase_method(db, pid) THEN "buy" ELSE "no_buy">>)
    /\ UNCHANGED <<db, fsm, tasks>>
    /\ Track

\* payload.get(k, "")
payload_get(payload, k) == IF k \in DOMAIN payload THEN payload[k] ELSE <<>>

\* cb_buy: callback "buy:<pid>", in any state. It reads the purchase method only,
\* neither the product nor the sender's role, and sends what the method holds: the
\* link button, the manager's handle with '@' in front, or the instruction.
cb_buy(u, pid) ==
    /\ IF ~has_purchase_method(db, pid)
         THEN ev' = EvC(u, "cb_buy", "no_method", pid)
       ELSE LET method == db.purchase_methods[pid]
                payload == json_loads(method.payload)
                url == strip(payload_get(payload, "url"))
                username == strip(payload_get(payload, "username"))
                text == strip(payload_get(payload, "text"))
            IN  IF method.method_type = "link"
                  THEN IF url = <<>>
                         THEN ev' = EvC(u, "cb_buy", "empty", pid)
                         ELSE ev' = EvCV(u, "cb_buy", "dispatch", pid,
                                         << <<"link", method.button_text, url>> >>)
                ELSE IF method.method_type = "manager"
                  THEN ev' = EvCV(u, "cb_buy", "dispatch", pid,
                                  << <<"manager",
                                       IF username # <<>> /\ Head(username) # "@"
                                         THEN <<"@">> \o username ELSE username>> >>)
                ELSE IF method.method_type = "text"
                  THEN IF text = <<>>
                         THEN ev' = EvC(u, "cb_buy", "empty", pid)
                         ELSE ev' = EvCV(u, "cb_buy", "dispatch", pid, << <<"text", text>> >>)
                ELSE ev' = EvC(u, "cb_buy", "unknown_method", pid)
    /\ UNCHANGED <<db, fsm, tasks>>
    /\ Track

\* ------------------------------------------------------------------ edit catalog
\* cb_toggle: callback "adm_toggle:<pid>", in any state
cb_toggle(u, pid) ==
    /\ IF ~require_min_role(db, u, "mod")
         THEN /\ db' = db
              /\ ev' = EvC(u, "cb_toggle", "denied", pid)
         ELSE /\ db' = db_toggle_product_active(db, pid)
              /\ ev' = EvC(u, "cb_toggle", "ok", pid)
    /\ UNCHANGED <<fsm, tasks>>
    /\ Track

ToggleTask(u, pid) ==
    [h |-> "cb_toggle", u |-> u, pid |-> pid, ptype |-> "", payload |-> EmptyFn, btn |-> <<>>]

\* cb_toggle in the two steps the event loop runs it in. Up to its write: the gate
\* reads the sender's role.
cb_toggle_gate(u, pid) ==
    /\ IF ~require_min_role(db, u, "mod")
         THEN /\ tasks' = tasks
              /\ ev' = EvC(u, "cb_toggle", "denied", pid)
         ELSE /\ Cardinality(tasks) < MaxTasks
              /\ tasks' = tasks \cup {ToggleTask(u, pid)}
              /\ ev' = EvC(u, "cb_toggle", "allowed", pid)
    /\ UNCHANGED <<db, fsm>>
    /\ Track

\* cb_toggle, resumed: db_toggle_product_active(pid), one UPDATE in its own
\* transaction, and the answer.
cb_toggle_write(t) ==
    /\ t \in tasks /\ t.h = "cb_toggle"
    /\ db' = db_toggle_product_active(db, t.pid)
    /\ tasks' = tasks \ {t}
    /\ ev' = EvT(t.u, "cb_toggle", "ok", t.pid)
    /\ fsm' = fsm
    /\ Track

\* cb_prod_delete_yes: callback adm_prod_delete_yes:<cid>:<sid>:<pid>, in any state
cb_prod_delete_yes(u, pid) ==
    /\ IF ~require_min_role(db, u, "admin")
         THEN /\ db' = db
              /\ ev' = EvC(u, "cb_prod_delete_yes", "denied", pid)
         ELSE /\ db' = db_delete_product(db, pid)
              /\ ev' = EvC(u, "cb_prod_delete_yes", "ok", pid)
    /\ UNCHANGED <<fsm, tasks>>
    /\ Track

\* cb_sub_delete_yes: callback adm_sub_delete_yes:<cid>:<sid>, in any state; it ends
\* by showing the subcategories of <cid> again (cb_sub_list)
cb_sub_delete_yes(u, cid, sid) ==
    /\ IF ~require_min_role(db, u, "admin")
         THEN /\ db' = db
              /\ ev' = EvC(u, "cb_sub_delete_yes", "denied", sid)
         ELSE /\ db' = db_delete_subcategory(db, sid)
              /\ ev' = EvCV(u, "cb_sub_delete_yes", "ok", sid,
                           db_get_subcategories(db_delete_subcategory(db, sid), cid))
    /\ UNCHANGED <<fsm, tasks>>
    /\ Track

\* ------------------------------------------------------------------ Edit Product
\* cb_edit_product: callback adm_edit_product:<pid>, in any state
cb_edit_product(u, pid) ==
    /\ IF ~require_min_role(db, u, "admin")
         THEN /\ fsm' = fsm
              /\ ev' = EvC(u, "cb_edit_product", "denied", pid)
       ELSE IF ~has_product(db, pid)
         THEN /\ fsm' = fsm
              /\ ev' = EvC(u, "cb_edit_product", "not_found", pid)
       ELSE /\ fsm' = set_state(update_data(set_state(fsm, u, "EditProduct:product_id"),
                                            u, "product_id", pid),
                                u, "EditProduct:field")
            /\ ev' = EvC(u, "cb_edit_product", "ok", pid)
    /\ UNCHANGED <<db, tasks>>
    /\ Track

cb_ep_field_mut_loop(u, field) == fsm[u].state = "EditProduct:field" /\ fsm' = set_state(update_data(fsm, u, "field", field), u, "EditProduct:field") /\ ev' = EvC(u, "cb_ep_field", "next", field) /\ UNCHANGED <<db, tasks>> /\ Track

\* cb_ep_field: callback "ep_field:<field>" in state EditProduct.field
cb_ep_field(u, field) ==
    /\ fsm[u].state = "EditProduct:field"
    /\ fsm' = set_state(update_data(fsm, u, "field", field), u, "EditProduct:value")
    /\ ev' = EvC(u, "cb_ep_field", "next", field)
    /\ UNCHANGED <<db, tasks>>
    /\ Track

\* st_ep_value: a message in state EditProduct.value
st_ep_value(u, m) ==
    /\ fsm[u].state = "EditProduct:value" /\ ~IsAnyCommand(m)
    /\ LET data == fsm[u].data
           txt == strip(text_or_empty(m))
       IN  IF ~require_min_role(db, u, "admin")
             THEN /\ UNCHANGED <<db, fsm>>
                  /\ ev' = EvM(u, "st_ep_value", "silent", m)
           ELSE IF ~HasKeys(fsm, u, {"product_id", "field"})
             THEN /\ UNCHANGED <<db, fsm>>
                  /\ ev' = EvM(u, "st_ep_value", "KeyError", m)
           ELSE IF data["field"] = "media"
             THEN IF is_skip(m) \/ m.kind \in {"photo", "video"}
                    THEN /\ db' = db_update_product_fields(db, data["product_id"],
                                      [k \in {"media_type", "media_file_id"} |->
                                          IF is_skip(m) THEN ""
                                          ELSE IF k = "media_type" THEN m.kind ELSE m.file])
                         /\ fsm' = clear(fsm, u)
                         /\ ev' = EvM(u, "st_ep_value", "ok", m)
                    ELSE /\ UNCHANGED <<db, fsm>>
                         /\ ev' = EvM(u, "st_ep_value", "reprompt", m)
           ELSE IF txt = <<>>
             THEN /\ UNCHANGED <<db, fsm>>
                  /\ ev' = EvM(u, "st_ep_value", "reprompt", m)
           ELSE IF data["field"] \notin {"title", "price", "description"}
             THEN /\ db' = db
                  /\ fsm' = clear(fsm, u)
                  /\ ev' = EvM(u, "st_ep_value", "unknown_field", m)
           ELSE /\ db' = db_update_product_fields(db, data["product_id"],
                             [k \in {data["field"]} |-> skip_to_empty(txt)])
                /\ fsm' = clear(fsm, u)
                /\ ev' = EvM(u, "st_ep_value", "ok", m)
    /\ tasks' = tasks
    /\ Track

\* ------------------------------------------------------------------ Set Purchase Method
\* cb_setbuy_start: callback adm_setbuy:<pid>, in any state
cb_setbuy_start(u, pid) ==
    /\ IF ~require_min_role(db, u, "admin")
         THEN /\ fsm' = fsm
              /\ ev' = EvC(u, "cb_setbuy_start", "denied", pid)
       ELSE IF ~has_product(db, pid)
         THEN /\ fsm' = fsm
              /\ ev' = EvC(u, "cb_setbuy_start", "not_found", pid)
       ELSE /\ fsm' = update_data(set_state(fsm, u, "SetBuy:product_id"), u, "product_id", pid)
            /\ ev' = EvC(u, "cb_setbuy_start", "ok", pid)
    /\ UNCHANGED <<db, tasks>>
    /\ Track

cb_setbuy_type_mut_early(u, ptype) ==
    /\ fsm[u].state = "SetBuy:product_id"
    /\ fsm' = set_state(update_data(fsm, u, "purchase_type", ptype), u, "SetBuy:purchase_payload")
    /\ ev' = EvC(u, "cb_setbuy_type", "next", ptype)
    /\ db' = db_upsert_purchase_method(db, fsm[u].data["product_id"], ptype,
                                       make_payload(ptype, <<>>), BUY_DEFAULT)
    /\ tasks' = tasks
    /\ Track

\* cb_setbuy_type: callback "setbuy_type:<ptype>" in state SetBuy.product_id
cb_setbuy_type(u, ptype) ==
    /\ fsm[u].state = "SetBuy:product_id"
    /\ fsm' = set_state(update_data(fsm, u, "purchase_type", ptype), u, "SetBuy:purchase_payload")
    /\ ev' = EvC(u, "cb_setbuy_type", "next", ptype)
    /\ UNCHANGED <<db, tasks>>
    /\ Track

\* st_setbuy_payload: a message in state SetBuy.purchase_payload
st_setbuy_payload(u, m) ==
    /\ fsm[u].state = "SetBuy:purchase_payload" /\ ~IsAnyCommand(m)
    /\ LET txt == strip(text_or_empty(m))
       IN  IF txt = <<>>
             THEN /\ fsm' = fsm
                  /\ ev' = EvM(u, "st_setbuy_payload", "reprompt", m)
           ELSE IF ~HasKeys(fsm, u, {"purchase_type"})
             THEN /\ fsm' = fsm
                  /\ ev' = EvM(u, "st_setbuy_payload", "KeyError", m)
           ELSE /\ fsm' = set_state(
                      update_data(fsm, u, "purchase_payload",
                                  make_payload(fsm[u].data["purchase_type"], txt)),
                      u, "SetBuy:purchase_button_text")
                /\ ev' = EvM(u, "st_setbuy_payload", "next", m)
    /\ UNCHANGED <<db, tasks>>
    /\ Track

\* st_setbuy_btn: a message in state SetBuy.purchase_button_text.  It checks no role.
st_setbuy_btn(u, m) ==
    /\ fsm[u].state = "SetBuy:purchase_button_text" /\ ~IsAnyCommand(m)
    /\ LET data == fsm[u].data
       IN  IF ~HasKeys(fsm, u, {"product_id", "purchase_type", "purchase_payload"})
             THEN /\ UNCHANGED <<db, fsm>>
                  /\ ev' = EvM(u, "st_setbuy_btn", "KeyError", m)
           ELSE IF ~fk_purchase_method(db, data["product_id"])
             THEN /\ UNCHANGED <<db, fsm>>
                  /\ ev' = EvM(u, "st_setbuy_btn", "IntegrityError", m)
           ELSE /\ db' = db_upsert_purchase_method(db, data["product_id"],
                                                   data["purchase_type"],
                                                   data["purchase_payload"], button_text(m))
                /\ fsm' = clear(fsm, u)
                /\ ev' = EvM(u, "st_setbuy_btn", "ok", m)
    /\ tasks' = tasks
    /\ Track

\* ------------------------------------------------------------------ Edit Texts
\* cb_txt_pick: callback "txt:<key>", in any state; the answer shows one block, the
\* current text
cb_txt_pick(u, key) ==
    /\ IF ~require_min_role(db, u, "admin")
         THEN /\ fsm' = fsm
              /\ ev' = EvC(u, "cb_txt_pick", "denied", key)
         ELSE /\ fsm' = set_state(update_data(set_state(fsm, u, "EditTexts:key"), u, "key", key),
                                  u, "EditTexts:value")
              /\ ev' = EvCV(u, "cb_txt_pick", "ok", key, <<db_get_setting(db, key)>>)
    /\ UNCHANGED <<db, tasks>>
    /\ Track

\* st_txt_value: a message in state EditTexts.value
st_txt_value(u, m) ==
    /\ fsm[u].state = "EditTexts:value" /\ ~IsAnyCommand(m)
    /\ LET txt == strip(text_or_empty(m))
       IN  IF ~require_min_role(db, u, "admin")
             THEN /\ UNCHANGED <<db, fsm>>
                  /\ ev' = EvM(u, "st_txt_value", "silent", m)
           ELSE IF txt = <<>>
             THEN /\ UNCHANGED <<db, fsm>>
                  /\ ev' = EvM(u, "st_txt_value", "reprompt", m)
           ELSE IF ~HasKey(fsm, u, "key")
             THEN /\ UNCHANGED <<db, fsm>>
                  /\ ev' = EvM(u, "st_txt_value", "KeyError", m)
           ELSE /\ db' = db_set_setting(db, fsm[u].data["key"], skip_to_empty(txt))
                /\ fsm' = clear(fsm, u)
                /\ ev' = EvM(u, "st_txt_value", "ok", m)
    /\ tasks' = tasks
    /\ Track

\* cb_cat_rename: callback adm_cat_rename:<cid>, in any state
cb_cat_rename(u, cid) ==
    /\ IF ~require_min_role(db, u, "admin")
         THEN /\ fsm' = fsm
              /\ ev' = EvC(u, "cb_cat_rename", "denied", cid)
         ELSE /\ fsm' = set_state(update_data(set_state(fsm, u, "EditCategory:category_id"),
                                              u, "category_id", cid),
                                  u, "EditCategory:new_title")
              /\ ev' = EvC(u, "cb_cat_rename", "ok", cid)
    /\ UNCHANGED <<db, tasks>>
    /\ Track

RenameTask(u, cid, title) == [h |-> "st_cat_new_title", u |-> u, cid |-> cid, title |-> title]

\* st_cat_new_title, up to the call of db_rename_category: a message in state
\* EditCategory.new_title.
st_cat_new_title(u, m) ==
    /\ fsm[u].state = "EditCategory:new_title" /\ ~IsAnyCommand(m)
    /\ Cardinality(tasks) < MaxTasks
    /\ LET title == strip(text_or_empty(m))
       IN  IF ~require_min_role(db, u, "admin")
             THEN /\ tasks' = tasks
                  /\ ev' = EvM(u, "st_cat_new_title", "silent", m)
           ELSE IF title = <<>>
             THEN /\ tasks' = tasks
                  /\ ev' = EvM(u, "st_cat_new_title", "reprompt", m)
           ELSE IF ~HasKey(fsm, u, "category_id")
             THEN /\ tasks' = tasks
                  /\ ev' = EvM(u, "st_cat_new_title", "KeyError", m)
           ELSE /\ tasks' = tasks \cup {RenameTask(u, fsm[u].data["category_id"], title)}
                /\ ev' = EvM(u, "st_cat_new_title", "renaming", m)
    /\ UNCHANGED <<db, fsm>>
    /\ Track

\* st_cat_new_title, resumed: the UPDATE commits, then state.clear() and the
\* confirmation.
st_cat_new_title_commit(t) ==
    /\ t \in tasks /\ t.h = "st_cat_new_title"
    /\ tasks' = tasks \ {t}
    /\ db' = db_rename_category(db, t.cid, t.title)
    /\ fsm' = clear(fsm, t.u)
    /\ ev' = EvT(t.u, "st_cat_new_title", "ok", <<t.cid, t.title>>)
    /\ Track

\* cb_cat_delete_yes: callback "adm_cat_delete_yes:<cid>", in any state; it ends by
\* showing the category list again (cb_edit_catalog)
cb_cat_delete_yes(u, cid) ==
    /\ IF ~require_min_role(db, u, "admin")
         THEN /\ db' = db
              /\ ev' = EvC(u, "cb_cat_delete_yes", "denied", cid)
         ELSE /\ db' = db_delete_category(db, cid)
              /\ ev' = EvCV(u, "cb_cat_delete_yes", "ok", cid,
                           db_get_categories(db_delete_category(db, cid)))
    /\ UNCHANGED <<fsm, tasks>>
    /\ Track

\* ------------------------------------------------------------------ SpecRoles
\* The role store, the gate and the role form, with every identity sending events.
StartMsg == TextMsg(<<"/start">>)

AdminMsg == TextMsg(<<"/admin">>)

\* What is typed at the user-id step: the owner's id, another id padded with
\* blanks, a word that is no number, a photo.
RoleIdInputs ==
    {TextMsg(OwnerText), TextMsg(<<" ", "2", " ">>), TextMsg(<<"3">>), TextMsg(<<"A">>),
     PhotoMsg("f1")}

GateRoles == {"user", "mod", "admin", "owner"}

NextRoles ==
    \/ main
    \/ \E u \in Uids, r \in GateRoles : gate(u, r)
    \/ \E u \in Uids : start(u, StartMsg)
    \/ \E t \in tasks : start_set_role(t)
    \/ \E u \in Uids : cmd_admin(u, AdminMsg)
    \/ \E u \in Uids : cb_adm_back(u)
    \/ \E u \in Uids, a \in {"set", "unset"} : cb_role_action(u, a)
    \/ \E u \in Uids, m \in RoleIdInputs : st_role_user_id(u, m)
    \/ \E u \in Uids, r \in {"admin", "mod"} : cb_set_role(u, r)

SpecRoles == Init /\ [][NextRoles]_vars

\* ------------------------------------------------------------------ seeded stores
\* Stores the handlers build: the owner has granted admin to 2 (and to 3), and an
\* admin has added a category, a subcategory under it and a product with its
\* purchase method.
SeedTitle == <<"T">>

\* A link a product was given earlier: a URL with a scheme.
SeedUrl == <<"h", "t", "t", "p", ":", "u">>

SeedCatalog(d) ==
    LET d1 == db_add_category(d, SeedTitle)
        d2 == db_add_subcategory(d1, 1, SeedTitle)
        d3 == db_add_product(d2, 1, SeedTitle, <<>>, <<>>, "", "")
    IN  db_upsert_purchase_method(d3, 1, "link", make_payload("link", SeedUrl), BUY_DEFAULT)

\* What the form's user types: a title padded with blanks, the skip sentinel, a
\* blank line.
TitleMsg == TextMsg(<<" ", "A">>)

SkipMsg == TextMsg(<<"-">>)

BlankMsg == TextMsg(<<" ">>)

\* The ids a callback can carry: the ids of the buttons ever shown, which are the
\* ids ever given out.
CatIds == 1..db.seq.categories

SubIds == 1..db.seq.subcategories

ProdIds == 1..db.seq.products

\* ------------------------------------------------------------------ SpecForms
\* One admin (2) fills the Add Category and Add Product forms and navigates away
\* from them, while the owner runs the role form on 2.
FormUser == 2

InitForms ==
    /\ db = db_add_subcategory(db_add_category(db_set_role(db_init(EmptyDb), FormUser, "admin"),
                                               SeedTitle), 1, SeedTitle)
    /\ fsm = FreshFsm
    /\ tasks = NoTasks
    /\ ev = Event("sys", OWNER_ID, "db_init", "ok", "", <<>>)
    /\ hist = NoHist

NextForms ==
    \/ cb_role_action(OWNER_ID, "unset")
    \/ st_role_user_id(OWNER_ID, TextMsg(<<"2">>))
    \/ cb_add_cat(FormUser)
    \/ \E m \in {TitleMsg, BlankMsg} : st_add_cat_title(FormUser, m)
    \/ cb_add_product(FormUser)
    \/ cb_prod_pick_cat(FormUser, 1)
    \/ cb_prod_pick_sub(FormUser, 1, 1)
    \/ st_prod_title(FormUser, TitleMsg)
    \/ st_prod_price(FormUser, SkipMsg)
    \/ st_prod_desc(FormUser, SkipMsg)
    \/ \E m \in {SkipMsg, PhotoMsg("f1")} : st_prod_media(FormUser, m)
    \/ cb_pm_type(FormUser, "manager")
    \/ st_pm_payload(FormUser, TextMsg(<<"@", "A">>))
    \/ st_pm_btn(FormUser, SkipMsg)
    \/ \E t \in tasks : st_pm_btn_upsert(t)
    \/ cb_home(FormUser)
    \/ cb_adm_back(FormUser)
    \/ cmd_admin(FormUser, AdminMsg)
    \/ start(FormUser, StartMsg)
    \/ \E t \in tasks : start_set_role(t)
    \/ unhandled_message(FormUser, TitleMsg)

SpecForms == InitForms /\ [][NextForms]_vars

\* ------------------------------------------------------------------ SpecCatalog
\* Two admins on a seeded catalog: 2 fills the Add Subcategory and Add Product
\* forms, 3 deletes categories, and 3 browses as a reader.
Deleter == 3

InitCatalog ==
    /\ db = SeedCatalog(db_set_role(db_set_role(db_init(EmptyDb), FormUser, "admin"),
                                    Deleter, "admin"))
    /\ fsm = FreshFsm
    /\ tasks = NoTasks
    /\ ev = Event("sys", OWNER_ID, "db_init", "ok", "", <<>>)
    /\ hist = NoHist

NextCatalog ==
    \/ cb_add_sub(FormUser)
    \/ \E c \in CatIds : cb_pick_cat_for_sub(FormUser, c)
    \/ st_add_sub_title(FormUser, TitleMsg)
    \/ cb_add_product(FormUser)
    \/ \E c \in CatIds : cb_prod_pick_cat(FormUser, c)
    \/ \E c \in CatIds, x \in SubIds : cb_prod_pick_sub(FormUser, c, x)
    \/ st_prod_title(FormUser, TitleMsg)
    \/ st_prod_price(FormUser, SkipMsg)
    \/ st_prod_desc(FormUser, SkipMsg)
    \/ st_prod_media(FormUser, SkipMsg)
    \/ cb_pm_type(FormUser, "link")
    \/ st_pm_payload(FormUser, TitleMsg)
    \/ st_pm_btn(FormUser, TitleMsg)
    \/ \E t \in tasks : st_pm_btn_upsert(t)
    \/ unhandled_message(FormUser, TitleMsg)
    \/ \E c \in CatIds : cb_cat_delete_yes(Deleter, c)
    \/ \E c \in CatIds, x \in SubIds : cb_subcategory(Deleter, c, x)
    \/ \E x \in ProdIds : cb_product(Deleter, x)

SpecCatalog == InitCatalog /\ [][NextCatalog]_vars

\* ------------------------------------------------------------------ C1
\* The rank order the gate is specified by.
SpecRank == [r \in GateRoles |->
    CASE r = "user" -> 0 [] r = "mod" -> 1 [] r = "admin" -> 2 [] OTHER -> 3]

\* The role the store holds for an identity; "user" when it holds none.
StoredRole(uid) == IF uid \in DOMAIN db.users THEN db.users[uid] ELSE "user"

\* C1: for each of the 16 pairs (actor role, required role) the gate allows exactly
\* when rank(actor) >= rank(required), user=0 < moderator=1 < admin=2 < owner=3, and
\* an identity without a stored role counts as user.
C1_GateIffRank ==
    ev.h = "require_min_role" =>
        (ev.out = "allowed") = (SpecRank[StoredRole(ev.u)] >= SpecRank[ev.a])

\* A stored moderator asking for admin is refused.
C1_Witness ==
    /\ ev.h = "require_min_role" /\ ev.a = "admin" /\ ev.out = "refused"
    /\ ev.u \in DOMAIN db.users /\ db.users[ev.u] = "mod"

\* ------------------------------------------------------------------ C2
\* A step of the user-id handler in which the owner revokes the owner id.
RevokeOwnerStep ==
    /\ ev'.h = "st_role_user_id"
    /\ fsm[ev'.u].state = "RolesManage:user_id"
    /\ require_min_role(db, ev'.u, "owner")
    /\ HasKey(fsm, ev'.u, "action") /\ fsm[ev'.u].data["action"] = "unset"
    /\ isdigit(strip(text_or_empty(ev'.a)))
    /\ int(strip(text_or_empty(ev'.a))) = OWNER_ID

\* C2: after bootstrap the owner identity holds role owner in every state, whatever
\* role-form operations and /start events happen, and a revoke aimed at the owner id
\* is answered with the owner-protection refusal and writes nothing to the store.
C2_OwnerStaysOwner ==
    /\ [](OWNER_ID \in DOMAIN db.users /\ db.users[OWNER_ID] = "owner")
    /\ [][RevokeOwnerStep => (ev'.out = "owner_protected" /\ db' = db)]_vars

\* The owner has just tried to revoke the owner id, and some other identity holds a
\* granted role.
C2_Witness ==
    /\ ev.h = "st_role_user_id" /\ ev.out = "owner_protected"
    /\ HasKey(fsm, ev.u, "action") /\ fsm[ev.u].data["action"] = "unset"
    /\ \E x \in DOMAIN db.users : db.users[x] = "admin"

\* ------------------------------------------------------------------ forms
\* The handlers that take the input of a form's step.
FormSteps ==
    {"st_add_cat_title", "cb_pick_cat_for_sub", "st_add_sub_title", "cb_prod_pick_cat",
     "cb_prod_pick_sub", "st_prod_title", "st_prod_price", "st_prod_desc", "st_prod_media",
     "cb_pm_type", "st_pm_payload", "st_pm_btn", "st_role_user_id", "cb_set_role"}

\* The steps whose input commits the form.
FinalStates ==
    {"AddCategory:title", "AddSubcategory:title", "AddProduct:purchase_button_text",
     "EditCategory:new_title", "EditSubcategory:new_title", "EditProduct:value",
     "SetBuy:purchase_button_text", "EditTexts:value", "RolesManage:user_id",
     "RolesManage:role"}

\* The role the form a step belongs to asks for.
FormRole(state) ==
    IF state \in {"RolesManage:user_id", "RolesManage:role"} THEN "owner" ELSE "admin"

\* No open form: no cursor and no collected fields.
Closed == [state |-> NoState, data |-> EmptyFn]

\* The step is the dispatch of an event (a message or a callback query) to a handler.
Dispatched == ev'.k \in {"msg", "cb"}

\* ------------------------------------------------------------------ C3
\* C3: a handler other than bootstrap and /start writes to the role store only for
\* an actor who holds owner when the handler runs, and to the catalog, the purchase
\* methods or the settings only for an actor who holds admin (moderator for the
\* toggle); so the last step of Add Product writes nothing for a user whose role
\* was lowered below admin after the form was opened.
C3_WritesNeedRole ==
    [][(Dispatched /\ ev'.h # "start") =>
         /\ (db'.users # db.users => SpecRank[StoredRole(ev'.u)] >= SpecRank["owner"])
         /\ (<<db'.categories, db'.subcategories, db'.products, db'.purchase_methods,
               db'.settings>> #
              <<db.categories, db.subcategories, db.products, db.purchase_methods,
                db.settings>>
                => SpecRank[StoredRole(ev'.u)] >=
                       SpecRank[IF ev'.h = "cb_toggle" THEN "mod" ELSE "admin"])]_vars

\* ------------------------------------------------------------------ C4
\* C4: when the user's role is below the role of the form the user has open, the
\* next input the user sends to that form, at whatever step, writes nothing and
\* leaves the user with no open form: cursor cleared, collected fields discarded.
C4_LoweredRoleClosesForm ==
    [][(/\ Dispatched /\ ev'.h \in FormSteps
        /\ fsm[ev'.u].state # NoState
        /\ SpecRank[StoredRole(ev'.u)] < SpecRank[FormRole(fsm[ev'.u].state)])
          => (db' = db /\ fsm'[ev'.u] = Closed)]_vars

\* ------------------------------------------------------------------ C7
\* C7: a navigation event (home, back to the admin panel, catalog browsing, /admin,
\* /start) sent by a user with an open form discards the form: afterwards the user
\* has no cursor and no collected fields.
C7_NavigationDiscards ==
    [][(Dispatched /\ ev'.h \in NavHandlers /\ fsm[ev'.u].state # NoState)
          => fsm'[ev'.u] = Closed]_vars

\* ------------------------------------------------------------------ C8
\* C8: after a form was abandoned through a navigation event at a step before its
\* final step, no later input of that user is committed through the abandoned
\* form: a step of a form, taken by a user whose form was abandoned, writes nothing.
C8_AbandonedFormWritesNothing ==
    [][(/\ Dispatched /\ ev'.h \in FormSteps
        /\ ev'.u \in DOMAIN hist.abandoned
        /\ hist.abandoned[ev'.u] \notin FinalStates)
          => db' = db]_vars

\* ------------------------------------------------------------------ C5
\* C5: the step that deletes a category leaves none of its subcategories, none of
\* their products and none of those products' purchase methods in the store; the
\* product listing of every removed subcategory is empty; and a subcategory or
\* product id that has been removed never comes back, so the removed products stay
\* unreachable by id and the listings stay empty.
C5_DeleteCascades ==
    /\ [][(ev'.h = "cb_cat_delete_yes" /\ ev'.out = "ok") =>
             LET subs == SubsOf(db, {ev'.a})
                 prods == ProdsOf(db, subs)
             IN  /\ ev'.a \notin DOMAIN db'.categories
                 /\ db_get_subcategories(db', ev'.a) = <<>>
                 /\ \A x \in subs :
                        /\ x \notin DOMAIN db'.subcategories
                        /\ db_get_products(db', x, TRUE) = <<>>
                 /\ \A x \in prods :
                        ~has_product(db', x) /\ ~has_purchase_method(db', x)]_vars
    /\ [][\A x \in 1..db.seq.subcategories :
             x \notin DOMAIN db.subcategories =>
                 (x \notin DOMAIN db'.subcategories /\ db_get_products(db', x, TRUE) = <<>>)]_vars
    /\ [][\A x \in 1..db.seq.products :
             ~has_product(db, x) => (~has_product(db', x) /\ ~has_purchase_method(db', x))]_vars

\* Category 1 has just been deleted; both subcategories and both products the store
\* ever held were under it and are gone, with the purchase methods.
C5_Witness ==
    /\ ev.h = "cb_cat_delete_yes" /\ ev.out = "ok" /\ ev.a = 1 /\ ev.v = <<>>
    /\ db.seq.subcategories >= 2 /\ db.seq.products >= 2
    /\ DOMAIN db.subcategories = {} /\ DOMAIN db.products = {}
    /\ DOMAIN db.purchase_methods = {}

\* ------------------------------------------------------------------ C6
\* C6: in every state, whatever the interleaving of the users' handlers, every
\* subcategory references an existing category, every product an existing
\* subcategory and every purchase method an existing product.
C6_NoOrphans ==
    /\ \A x \in DOMAIN db.subcategories :
          db.subcategories[x].category_id \in DOMAIN db.categories
    /\ \A x \in DOMAIN db.products :
          db.products[x].subcategory_id \in DOMAIN db.subcategories
    /\ \A x \in DOMAIN db.purchase_methods : x \in DOMAIN db.products

\* Another user's cascading delete ran between the two writes of an Add Product
\* commit, and the insert of the purchase method was refused.
C6_Witness ==
    /\ ev.k = "task" /\ ev.h = "st_pm_btn" /\ ev.out = "IntegrityError"
    /\ DOMAIN db.categories = {}

\* ------------------------------------------------------------------ C9
\* rows in the catalog and purchase-method tables
RowCount(d) ==
    Cardinality(DOMAIN d.categories) + Cardinality(DOMAIN d.subcategories)
        + Cardinality(DOMAIN d.products) + Cardinality(DOMAIN d.purchase_methods)

\* C9: a valid input at the final step of a form makes exactly one commit (one
\* category, one subcategory, or one product followed by its one purchase method)
\* and leaves the user with no open form; and a message delivered to a user with
\* no open form, such as the final input delivered again after the first delivery
\* was handled, creates nothing.
C9_FinalStepCommitsOnce ==
    [][/\ (/\ ev'.k = "msg" /\ ev'.h \in {"st_add_cat_title", "st_add_sub_title"}
            /\ strip(text_or_empty(ev'.a)) # <<>>)
              => (RowCount(db') = RowCount(db) + 1 /\ fsm'[ev'.u] = Closed)
       /\ (ev'.k = "msg" /\ ev'.h = "st_pm_btn")
              => /\ RowCount(db') = RowCount(db) + 1
                 /\ Cardinality(DOMAIN db'.products) = Cardinality(DOMAIN db.products) + 1
       /\ (ev'.k = "task" /\ ev'.h = "st_pm_btn")
              => /\ RowCount(db') = RowCount(db) + 1
                 /\ db'.purchase_methods # db.purchase_methods
                 /\ fsm'[ev'.u] = Closed
       /\ (ev'.k = "msg" /\ ~IsAnyCommand(ev'.a) /\ fsm[ev'.u].state = NoState)
              => db' = db]_vars

\* ------------------------------------------------------------------ C10
\* C10: the product and its purchase method are written as one unit: no state
\* holds a product without its purchase method, and what a reader is shown for a
\* product always carries the buy button.
C10_ProductWithMethod ==
    /\ \A x \in DOMAIN db.products : has_purchase_method(db, x)
    /\ (ev.h = "cb_product" /\ ev.out = "ok") => ev.v = <<"buy">>

\* ------------------------------------------------------------------ SpecUsers
\* Three users at the same time, each in a private chat: admin 2 fills Add
\* Subcategory, admin 3 fills Add Category, the owner runs the role form on 3.  The
\* same text, "3", is what each of them types; the state filters route it.
IdMsg == TextMsg(<<"3">>)

InitUsers ==
    /\ db = db_add_category(db_set_role(db_set_role(db_init(EmptyDb), 2, "admin"), 3, "admin"),
                            SeedTitle)
    /\ fsm = FreshFsm
    /\ tasks = NoTasks
    /\ ev = Event("sys", OWNER_ID, "db_init", "ok", "", <<>>)
    /\ hist = NoHist

\* The events a user sends in SpecUsers.
Sends ==
    [u \in Uids |->
        IF u = 2 THEN {"adm_add_sub", "adm_pick_cat_for_sub:1", "text"}
        ELSE IF u = 3 THEN {"adm_add_cat", "text"}
        ELSE {"role_action:set", "text", "setrole:mod"}]

\* The router: the handler whose filters match the event takes it.
Dispatch(u, e) ==
    \/ e = "adm_add_cat" /\ cb_add_cat(u)
    \/ e = "adm_add_sub" /\ cb_add_sub(u)
    \/ e = "adm_pick_cat_for_sub:1" /\ cb_pick_cat_for_sub(u, 1)
    \/ e = "role_action:set" /\ cb_role_action(u, "set")
    \/ e = "setrole:mod" /\ cb_set_role(u, "mod")
    \/ e = "text" /\ st_add_cat_title(u, IdMsg)
    \/ e = "text" /\ st_add_sub_title(u, IdMsg)
    \/ e = "text" /\ st_role_user_id(u, IdMsg)
    \/ e = "text" /\ unhandled_message(u, IdMsg)

NextUsers == \E u \in Uids : \E e \in Sends[u] : Dispatch(u, e)

SpecUsers == InitUsers /\ [][NextUsers]_vars

\* ------------------------------------------------------------------ C11
\* The answers a handler gives.
Answers ==
    {"ok", "denied", "silent", "reprompt", "no_categories", "next", "KeyError",
     "IntegrityError", "owner_protected", "error", "ignored"}

\* What event e of user u comes to in the current state, as far as an observer
\* tells: the answer, whether the store is written, whether u's ConversationState
\* is left as it was.
OutcomeOf(u, e) ==
    [out |-> {o \in Answers : ENABLED (Dispatch(u, e) /\ ev'.out = o)},
     wrote |-> ENABLED (Dispatch(u, e) /\ db' # db),
     kept |-> ENABLED (Dispatch(u, e) /\ fsm'[u] = fsm[u])]

\* C11: handling an event of one user leaves every other user's cursor and
\* collected fields as they were; and what a user's event comes to does not depend
\* on another user's ConversationState: a step that changes nothing but another
\* user's ConversationState leaves the outcome of each of the user's events the same.
C11_UsersIsolated ==
    /\ [][ev'.k # "sys" => \A a \in Uids \ {ev'.u} : fsm'[a] = fsm[a]]_vars
    /\ [][(db' = db /\ tasks' = tasks /\ fsm' # fsm) =>
             \A b \in Uids \ {ev'.u} : \A e \in Sends[b] :
                 OutcomeOf(b, e)' = OutcomeOf(b, e)]_vars

\* Admin 3 has just committed a category while admin 2 has the Add Subcategory
\* form open at its title step with the category picked, and the owner has the
\* role form open.
C11_Witness ==
    /\ ev.u = 3 /\ ev.h = "st_add_cat_title" /\ ev.out = "ok"
    /\ fsm[2].state = "AddSubcategory:title" /\ HasKey(fsm, 2, "category_id")
    /\ fsm[OWNER_ID].state = "RolesManage:role"
    /\ fsm[3] = Closed

\* ------------------------------------------------------------------ C12
\* The fields the entry handler of a form writes.
EntryFields(h) ==
    IF h = "cb_role_action" THEN {"action"}
    ELSE IF h = "cb_cat_rename" THEN {"category_id"}
    ELSE IF h \in {"cb_edit_product", "cb_setbuy_start"} THEN {"product_id"}
    ELSE IF h = "cb_txt_pick" THEN {"key"}
    ELSE {}

\* The form a state belongs to (the StatesGroup), and the form an entry handler opens.
FormOfState(st) ==
    CASE st \in {"AddCategory:title"} -> "AddCategory"
      [] st \in {"AddSubcategory:pick_category", "AddSubcategory:title"} -> "AddSubcategory"
      [] st \in {"RolesManage:user_id", "RolesManage:role"} -> "RolesManage"
      [] st \in {"EditCategory:new_title"} -> "EditCategory"
      [] st \in {"EditProduct:field", "EditProduct:value"} -> "EditProduct"
      [] st \in {"SetBuy:product_id", "SetBuy:purchase_payload",
                 "SetBuy:purchase_button_text"} -> "SetBuy"
      [] st \in {"EditTexts:key", "EditTexts:value"} -> "EditTexts"
      [] st = NoState -> "None"
      [] OTHER -> "AddProduct"

FormOfEntry(h) ==
    CASE h = "cb_add_cat" -> "AddCategory"
      [] h = "cb_add_sub" -> "AddSubcategory"
      [] h = "cb_add_product" -> "AddProduct"
      [] h = "cb_cat_rename" -> "EditCategory"
      [] h = "cb_edit_product" -> "EditProduct"
      [] h = "cb_setbuy_start" -> "SetBuy"
      [] h = "cb_txt_pick" -> "EditTexts"
      [] OTHER -> "RolesManage"

\* C12: when a user with an open form starts another form, the earlier
\* ConversationState is discarded: right after the entry handler the collected
\* data holds only fields the new form wrote.
C12_EntryDiscardsOldForm ==
    [][(/\ Dispatched /\ ev'.h \in EntryHandlers /\ ev'.out = "ok"
        /\ fsm[ev'.u].state # NoState
        /\ FormOfState(fsm[ev'.u].state) # FormOfEntry(ev'.h))
          => DOMAIN fsm'[ev'.u].data \subseteq EntryFields(ev'.h)]_vars

\* ------------------------------------------------------------------ C15
\* C15: when a user ranked below admin triggers the entry of an admin-only form,
\* the attempt is refused, the store is left as it was, and afterwards the user has
\* no open ConversationState.
C15_EntryRefusedBelowAdmin ==
    [][(/\ Dispatched /\ ev'.h \in {"cb_add_cat", "cb_add_sub", "cb_add_product"}
        /\ SpecRank[StoredRole(ev'.u)] < SpecRank["admin"])
          => (ev'.out = "denied" /\ db' = db /\ fsm'[ev'.u] = Closed)]_vars

\* ------------------------------------------------------------------ C18
\* C18: no two invocations of a handler for one user are in progress on the same
\* form step at once, so two deliveries of a final input handled concurrently
\* leave at most one invocation that has inserted its product and not yet cleared
\* the form.
C18_OneInvocationPerUser ==
    \A t1 \in tasks : \A t2 \in tasks : (t1.u = t2.u /\ t1.h = t2.h) => t1 = t2

\* ------------------------------------------------------------------ SpecListing
\* The shop flow on a catalog of two categories, two subcategories under category
\* 1 and two products under subcategory 1 (the second without price).  No handler
\* writes the sort column: the operator sets it in the database file, and Init
\* draws it.  2 is a moderator, 3 an ordinary user; the moderator and the owner
\* toggle products, everybody browses.
Sorts == {0, 1}

Moderator == 2

Visitor == 3

ListingDb(sc, ss, sp) ==
    LET d0 == db_set_role(db_init(EmptyDb), Moderator, "mod")
        d1 == db_add_category(db_add_category(d0, SeedTitle), SeedTitle)
        d2 == db_add_subcategory(db_add_subcategory(d1, 1, SeedTitle), 1, SeedTitle)
        d3 == db_add_product(db_add_product(d2, 1, SeedTitle, <<"7">>, <<>>, "", ""),
                             1, SeedTitle, <<>>, <<>>, "", "")
        d4 == db_upsert_purchase_method(d3, 1, "link", make_payload("link", <<"u">>),
                                        BUY_DEFAULT)
    IN  [d4 EXCEPT !.categories = [x \in DOMAIN @ |-> [@[x] EXCEPT !.sort = sc[x]]],
                   !.subcategories = [x \in DOMAIN @ |-> [@[x] EXCEPT !.sort = ss[x]]],
                   !.products = [x \in DOMAIN @ |-> [@[x] EXCEPT !.sort = sp[x]]]]

InitListing ==
    /\ \E sc \in [1..2 -> Sorts], ss \in [1..2 -> Sorts], sp \in [1..2 -> Sorts] :
           db = ListingDb(sc, ss, sp)
    /\ fsm = FreshFsm
    /\ tasks = NoTasks
    /\ ev = Event("sys", OWNER_ID, "db_init", "ok", "", <<>>)
    /\ hist = NoHist

NextListing ==
    \/ \E u \in {Moderator, OWNER_ID, Visitor}, x \in 1..2 : cb_toggle(u, x)
    \/ \E u \in Uids : cb_catalog(u)
    \/ \E u \in Uids : cb_category(u, 1)
    \/ \E u \in Uids : cb_subcategory(u, 1, 1)
    \/ \E u \in Uids, x \in 1..2 : cb_product(u, x)
    \/ \E u \in {Moderator, Visitor}, x \in 1..2 : cb_buy(u, x)

SpecListing == InitListing /\ [][NextListing]_vars

\* ------------------------------------------------------------------ C13
\* the ids of the rows of a listing
ViewIds(v) == {v[i][1] : i \in 1..Len(v)}

\* C13: the product listing shown to a user of role user leaves out every inactive
\* product of the subcategory, the listing shown to a moderator or higher holds it
\* with the inactive marker (and the active ones without), and an ordinary user who
\* opens an inactive product by id is refused.
C13_InactiveHiddenFromUsers ==
    /\ ev.h = "cb_subcategory" =>
          \A x \in ProdsOf(db, {ev.a[2]}) :
              IF db.products[x].is_active = 1
                THEN \E i \in 1..Len(ev.v) : ev.v[i][1] = x /\ Head(ev.v[i][2]) # INACTIVE_MARK
              ELSE IF SpecRank[StoredRole(ev.u)] >= SpecRank["mod"]
                THEN \E i \in 1..Len(ev.v) : ev.v[i][1] = x /\ Head(ev.v[i][2]) = INACTIVE_MARK
              ELSE x \notin ViewIds(ev.v)
    /\ (/\ ev.h = "cb_product" /\ has_product(db, ev.a)
        /\ db.products[ev.a].is_active # 1 /\ StoredRole(ev.u) = "user")
          => ev.out = "unavailable"

\* The ordinary user has just listed subcategory 1 while product 1 is inactive and
\* product 2 active: one row is shown.
C13_Witness ==
    /\ ev.h = "cb_subcategory" /\ ev.u = Visitor /\ Len(ev.v) = 1
    /\ db.products[1].is_active = 0 /\ db.products[2].is_active = 1

\* ------------------------------------------------------------------ C17
\* the rows of a listing come in (sort, id) order, each id once
Ordered(tbl, v) ==
    \A i \in 1..Len(v) : \A j \in 1..Len(v) :
        i < j => \/ tbl[v[i][1]].sort < tbl[v[j][1]].sort
                 \/ (tbl[v[i][1]].sort = tbl[v[j][1]].sort /\ v[i][1] < v[j][1])

Listings == {"cb_catalog", "cb_category", "cb_subcategory"}

\* C17: the category list, the subcategory list of a category and the product list
\* of a subcategory hold the matching rows in (sort, id) order; and two successive
\* list calls with no write between them show the same sequence (for products: to
\* callers who are both staff or both not).
C17_ListingOrdered ==
    /\ [](ev.h = "cb_catalog" =>
            Ordered(db.categories, ev.v) /\ ViewIds(ev.v) = DOMAIN db.categories)
    /\ [](ev.h = "cb_category" =>
            Ordered(db.subcategories, ev.v) /\ ViewIds(ev.v) = SubsOf(db, {ev.a}))
    /\ [](ev.h = "cb_subcategory" =>
            Ordered(db.products, ev.v) /\ ViewIds(ev.v) \subseteq ProdsOf(db, {ev.a[2]}))
    /\ [][(/\ ev.h \in Listings /\ ev'.h = ev.h /\ ev'.a = ev.a /\ db' = db
            /\ (ev.h = "cb_subcategory" =>
                   require_min_role(db, ev.u, "mod") = require_min_role(db, ev'.u, "mod")))
              => ev'.v = ev.v]_vars

\* Subcategory 2 has the smaller sort value and is listed before subcategory 1.
C17_Witness ==
    /\ ev.h = "cb_category" /\ Len(ev.v) = 2 /\ ev.v[1][1] = 2 /\ ev.v[2][1] = 1
    /\ db.subcategories[2].sort < db.subcategories[1].sort

\* ------------------------------------------------------------------ SpecScenario
\* The owner builds a catalog from nothing: Add Category, Add Subcategory under it,
\* Add Product under that with title, price, skipped description, skipped media and
\* a link, opening each form while the catalog has no row of its kind yet; everybody
\* lists and opens what is there.
PriceMsg == TextMsg(<<"7">>)

UrlMsg == TextMsg(<<"u">>)

NextScenario ==
    \/ db.seq.categories = 0 /\ cb_add_cat(OWNER_ID)
    \/ \E m \in {TitleMsg, BlankMsg} : st_add_cat_title(OWNER_ID, m)
    \/ db.seq.subcategories = 0 /\ cb_add_sub(OWNER_ID)
    \/ \E c \in CatIds : cb_pick_cat_for_sub(OWNER_ID, c)
    \/ st_add_sub_title(OWNER_ID, TitleMsg)
    \/ db.seq.products = 0 /\ cb_add_product(OWNER_ID)
    \/ \E c \in CatIds : cb_prod_pick_cat(OWNER_ID, c)
    \/ \E c \in CatIds, x \in SubIds : cb_prod_pick_sub(OWNER_ID, c, x)
    \/ st_prod_title(OWNER_ID, TitleMsg)
    \/ st_prod_price(OWNER_ID, PriceMsg)
    \/ st_prod_desc(OWNER_ID, SkipMsg)
    \/ st_prod_media(OWNER_ID, SkipMsg)
    \/ cb_pm_type(OWNER_ID, "link")
    \/ st_pm_payload(OWNER_ID, UrlMsg)
    \/ st_pm_btn(OWNER_ID, SkipMsg)
    \/ \E t \in tasks : st_pm_btn_upsert(t)
    \/ \E u \in Uids, x \in SubIds : cb_subcategory(u, 1, x)
    \/ \E u \in Uids, x \in ProdIds : cb_product(u, x)

SpecScenario == Init /\ [][NextScenario]_vars

\* ------------------------------------------------------------------ C14
\* Each of the three forms has been completed once and nothing else was added.
ScenarioDone ==
    /\ db.seq = [categories |-> 1, subcategories |-> 1, products |-> 1]
    /\ tasks = NoTasks

\* C14: from an empty catalog, after the owner has completed Add Category, Add
\* Subcategory and Add Product (title, price, skipped description and media, kind
\* link with a URL), the product listing of the subcategory holds for every role
\* exactly one product, active, with the entered title, and the product has one
\* purchase method, of kind link with the URL.
C14_ScenarioListing ==
    ScenarioDone =>
        /\ \A staff \in BOOLEAN :
              /\ db_get_products(db, 1, staff) = << <<1, <<"A">>, <<"7">>, 1>> >>
              /\ kb_products(db, 1, staff) = << <<1, <<"A", "-", "7">> >> >>
        /\ db.products[1].description = <<>> /\ db.products[1].media_type = ""
        /\ DOMAIN db.purchase_methods = {1}
        /\ db.purchase_methods[1].method_type = "link"
        /\ json_loads(db.purchase_methods[1].payload) = [k \in {"url"} |-> <<"u">>]
        /\ ev.h = "cb_subcategory" => ev.v = << <<1, <<"A", "-", "7">> >> >>
        /\ (ev.h = "cb_product" /\ ev.a = 1) => (ev.out = "ok" /\ ev.v = <<"buy">>)

\* The scenario is complete and the ordinary user 3 has just listed the subcategory.
C14_Witness ==
    /\ ScenarioDone /\ has_purchase_method(db, 1)
    /\ ev.h = "cb_subcategory" /\ ev.u = 3 /\ Len(ev.v) = 1

\* ------------------------------------------------------------------ SpecInit
\* The process starts on a database file left by an earlier run, possibly of a build
\* with another OWNER_ID: the owner's row is missing or holds any role, another user
\* may be stored, each default key is missing, at its default or customized, and the
\* catalog is empty or holds a category, a subcategory and a product with its method.
Custom == <<"custom">>

Roles == {"user", "mod", "admin", "owner"}

StoredFile(owner, other, st, seeded) ==
    LET d0 == [EmptyDb EXCEPT
                  !.users = [u \in {x \in {OWNER_ID} : owner # ""} \cup
                                   {x \in {2} : other # ""} |->
                                IF u = OWNER_ID THEN owner ELSE other],
                  !.settings = [k \in {x \in DOMAIN DEFAULT_SETTINGS : st[x] # "missing"} |->
                                   IF st[k] = "default" THEN DEFAULT_SETTINGS[k] ELSE Custom]]
    IN  IF seeded THEN SeedCatalog(d0) ELSE d0

InitInit ==
    /\ \E owner \in Roles \cup {""}, other \in {"", "admin"}, seeded \in BOOLEAN :
          \E st \in [DOMAIN DEFAULT_SETTINGS -> {"missing", "default", "custom"}] :
              db = StoredFile(owner, other, st, seeded)
    /\ fsm = FreshFsm
    /\ tasks = NoTasks
    /\ ev = Event("sys", OWNER_ID, "file", "ok", "", <<>>)
    /\ hist = NoHist

NextInit == main

SpecInit == InitInit /\ [][NextInit]_vars

\* ------------------------------------------------------------------ C16
\* C16: db_init changes no catalog row and no purchase method, keeps the value of
\* every setting that exists (customized ones included), adds each missing default
\* key with its default, leaves the owner with role owner whether its row was
\* missing or held another role, keeps every other user's role, and running it a
\* second time changes nothing more.
C16_InitIdempotent ==
    [][ev'.h = "db_init" =>
          /\ db'.categories = db.categories /\ db'.subcategories = db.subcategories
          /\ db'.products = db.products /\ db'.purchase_methods = db.purchase_methods
          /\ db'.seq = db.seq
          /\ DOMAIN db'.settings = DOMAIN db.settings \cup DOMAIN DEFAULT_SETTINGS
          /\ \A k \in DOMAIN db'.settings :
                db'.settings[k] = IF k \in DOMAIN db.settings THEN db.settings[k]
                                  ELSE DEFAULT_SETTINGS[k]
          /\ DOMAIN db'.users = DOMAIN db.users \cup {OWNER_ID}
          /\ \A u \in DOMAIN db'.users :
                db'.users[u] = IF u = OWNER_ID THEN "owner" ELSE db.users[u]
          /\ db_init(db') = db']_vars

\* db_init has run on a file with a customized start text, a missing support text, a
\* stored admin and a catalog: the custom value is still there and the owner is owner.
C16_Witness ==
    /\ ev.h = "db_init"
    /\ db.settings["start_text"] = Custom /\ db.settings["support_text"] = DEFAULT_SETTINGS["support_text"]
    /\ db.users = [u \in {OWNER_ID, 2} |-> IF u = 2 THEN "admin" ELSE "owner"]
    /\ has_purchase_method(db, 1)

\* ------------------------------------------------------------------ SpecRename
\* Two admins rename categories at the same time: each picks one of two categories
\* and sends its own title; a rename is suspended between reading the form's data
\* and its UPDATE, so the two commit in either order.  Anybody lists the categories.
TitleOf == [u \in {2, 3} |-> IF u = 2 THEN TitleMsg ELSE TextMsg(<<"B">>)]

InitRename ==
    /\ db = db_add_category(
                SeedCatalog(db_set_role(db_set_role(db_init(EmptyDb), 2, "admin"), 3, "admin")),
                SeedTitle)
    /\ fsm = FreshFsm
    /\ tasks = NoTasks
    /\ ev = Event("sys", OWNER_ID, "db_init", "ok", "", <<>>)
    /\ hist = NoHist

NextRename ==
    \/ \E u \in {2, 3}, c \in CatIds : cb_cat_rename(u, c)
    \/ \E u \in {2, 3} : \E m \in {TitleOf[u], BlankMsg} : st_cat_new_title(u, m)
    \/ \E t \in tasks : st_cat_new_title_commit(t)
    \/ \E u \in Uids : cb_catalog(u)

SpecRename == InitRename /\ [][NextRename]_vars

\* ------------------------------------------------------------------ C19
RenameCommit == ev'.k = "task" /\ ev'.h = "st_cat_new_title" /\ ev'.out = "ok"

\* C19: a rename is one write: the step that commits it sets the title of exactly
\* the picked category to the stripped text its sender entered and changes no other
\* row of any table, and no other step changes a category; so after two concurrent
\* renames each category carries the title of the rename committed last on it.
C19_RenameAtomic ==
    /\ [][(ev'.h = "st_cat_new_title" /\ ev'.out = "renaming") =>
             tasks' = tasks \cup {RenameTask(ev'.u, fsm[ev'.u].data["category_id"],
                                             strip(text_or_empty(ev'.a)))}]_vars
    /\ [][RenameCommit =>
             /\ DOMAIN db'.categories = DOMAIN db.categories
             /\ \A c \in DOMAIN db.categories :
                   db'.categories[c] =
                       IF c = ev'.a[1] THEN [db.categories[c] EXCEPT !.title = ev'.a[2]]
                       ELSE db.categories[c]
             /\ \E t \in tasks : t = RenameTask(ev'.u, ev'.a[1], ev'.a[2]) /\ tasks' = tasks \ {t}
             /\ [db' EXCEPT !.categories = db.categories] = db]_vars
    /\ [][~RenameCommit => db' = db]_vars

\* Both admins have a rename of category 1 in flight; user 2's has just committed
\* while user 3's is still suspended: the title is user 2's, category 2 keeps its own.
C19_Witness ==
    /\ ev.k = "task" /\ ev.h = "st_cat_new_title" /\ ev.u = 2 /\ ev.a = <<1, <<"A">> >>
    /\ RenameTask(3, 1, <<"B">>) \in tasks
    /\ db.categories[1].title = <<"A">> /\ db.categories[2].title = SeedTitle

\* ------------------------------------------------------------------ C20
\* C20: once the owner's grant or revoke for a user has committed, every later call
\* of the authorization gate for that user answers by the role of the last such
\* commit.
C20_GateUsesGrantedRole ==
    [][(ev'.h = "require_min_role" /\ ev'.u \in DOMAIN hist.granted) =>
          ((ev'.out = "allowed") <=> (SpecRank[hist.granted[ev'.u]] >= SpecRank[ev'.a]))]_vars

\* ------------------------------------------------------------------ C21
\* C21: a delete, a toggle or a rename that passes the role check and targets an id
\* the store does not hold answers NotFound, never success.
C21_MissingIdRejected ==
    [][/\ (ev'.h = "cb_cat_delete_yes" /\ ev'.out # "denied" /\ ev'.a \notin DOMAIN db.categories)
            => ev'.out = "not_found"
       /\ (ev'.h = "cb_toggle" /\ ev'.out # "denied" /\ ev'.a \notin DOMAIN db.products)
            => ev'.out = "not_found"
       /\ (ev'.k = "task" /\ ev'.h = "st_cat_new_title" /\ ev'.a[1] \notin DOMAIN db.categories)
            => ev'.out = "not_found"]_vars

\* ------------------------------------------------------------------ C24
\* The step at which each step handler is registered.
StepOf ==
    [h \in FormSteps \cup {"st_cat_new_title", "cb_ep_field", "st_ep_value", "cb_setbuy_type",
                            "st_setbuy_payload", "st_setbuy_btn"} |->
        CASE h = "st_add_cat_title" -> "AddCategory:title"
          [] h = "cb_ep_field" -> "EditProduct:field"
          [] h = "st_ep_value" -> "EditProduct:value"
          [] h = "cb_setbuy_type" -> "SetBuy:product_id"
          [] h = "st_setbuy_payload" -> "SetBuy:purchase_payload"
          [] h = "st_setbuy_btn" -> "SetBuy:purchase_button_text"
          [] h = "cb_pick_cat_for_sub" -> "AddSubcategory:pick_category"
          [] h = "st_add_sub_title" -> "AddSubcategory:title"
          [] h = "cb_prod_pick_cat" -> "AddProduct:pick_category"
          [] h = "cb_prod_pick_sub" -> "AddProduct:pick_subcategory"
          [] h = "st_prod_title" -> "AddProduct:title"
          [] h = "st_prod_price" -> "AddProduct:price"
          [] h = "st_prod_desc" -> "AddProduct:description"
          [] h = "st_prod_media" -> "AddProduct:media"
          [] h = "cb_pm_type" -> "AddProduct:purchase_type"
          [] h = "st_pm_payload" -> "AddProduct:purchase_payload"
          [] h = "st_pm_btn" -> "AddProduct:purchase_button_text"
          [] h = "st_role_user_id" -> "RolesManage:user_id"
          [] h = "cb_set_role" -> "RolesManage:role"
          [] OTHER -> "EditCategory:new_title"]

\* C24: the code of a step handler, its resumed part included, runs only while the
\* sender's cursor is at that handler's step, and the cursor leaves an open form for
\* no-open-form only through the handler of the step it is at.
C24_CursorMovesStepwise ==
    [][/\ ev'.h \in DOMAIN StepOf => fsm[ev'.u].state = StepOf[ev'.h]
       /\ \A u \in Uids :
             (fsm[u].state # NoState /\ fsm'[u].state = NoState) =>
                 (ev'.u = u /\ ev'.h \in DOMAIN StepOf /\ StepOf[ev'.h] = fsm[u].state)]_vars

\* ------------------------------------------------------------------ SpecEdit
\* An admin works on two existing products, the first with a link method, the
\* second without a method: Edit Product (title), Set Purchase Method (a text with
\* its own label), toggle and delete, in any order and with any form left open; an
\* ordinary user opens the products.
InitEdit ==
    /\ db = db_add_product(SeedCatalog(db_set_role(db_init(EmptyDb), FormUser, "admin")),
                           1, SeedTitle, <<>>, <<>>, "", "")
    /\ fsm = FreshFsm
    /\ tasks = NoTasks
    /\ ev = Event("sys", OWNER_ID, "db_init", "ok", "", <<>>)
    /\ hist = NoHist

NextEdit ==
    \/ \E x \in ProdIds : cb_edit_product(FormUser, x)
    \/ cb_ep_field(FormUser, "title")
    \/ \E m \in {SkipMsg, BlankMsg} : st_ep_value(FormUser, m)
    \/ \E x \in ProdIds : cb_setbuy_start(FormUser, x)
    \/ cb_setbuy_type(FormUser, "text")
    \/ \E m \in {UrlMsg, BlankMsg} : st_setbuy_payload(FormUser, m)
    \/ st_setbuy_btn(FormUser, TitleMsg)
    \/ \E x \in ProdIds : cb_toggle(FormUser, x)
    \/ \E x \in ProdIds : cb_prod_delete_yes(FormUser, x)
    \/ \E x \in ProdIds : cb_product(3, x)

SpecEdit == InitEdit /\ [][NextEdit]_vars

\* ------------------------------------------------------------------ C22
\* C22: every category, subcategory and product in the store has a non-empty title.
C22_TitlesNonEmpty ==
    /\ \A c \in DOMAIN db.categories : db.categories[c].title # <<>>
    /\ \A x \in DOMAIN db.subcategories : db.subcategories[x].title # <<>>
    /\ \A x \in DOMAIN db.products : db.products[x].title # <<>>

\* ------------------------------------------------------------------ C29
\* C29: while the sender has a form open, an event that neither opens a form nor
\* leaves the cursor elsewhere changes the store or the sender's ConversationState
\* only through the handler of the step the form is at.
C29_OpenFormTakesEvents ==
    [][(/\ Dispatched /\ ev'.h \notin EntryHandlers
        /\ fsm[ev'.u].state # NoState /\ fsm'[ev'.u].state = fsm[ev'.u].state
        /\ (db' # db \/ fsm'[ev'.u] # fsm[ev'.u])) =>
           (ev'.h \in DOMAIN StepOf /\ StepOf[ev'.h] = fsm[ev'.u].state)]_vars

\* ------------------------------------------------------------------ C30
\* C30: the commit of Set Purchase Method (kind text, text "u", label "A") leaves
\* the picked product with exactly the entered kind, payload and label, in place of
\* the method it had, adds a method to no other product and changes no other
\* product's method nor any other table.
C30_MethodReplacedInPlace ==
    [][(ev'.h = "st_setbuy_btn" /\ ev'.out = "ok") =>
          LET pid == fsm[ev'.u].data["product_id"]
          IN  /\ DOMAIN db'.purchase_methods = DOMAIN db.purchase_methods \cup {pid}
              /\ db'.purchase_methods[pid] =
                     [method_type |-> "text", payload |-> << <<"text", <<"u">> >> >>,
                      button_text |-> <<"A">>]
              /\ \A x \in DOMAIN db.purchase_methods \ {pid} :
                     db'.purchase_methods[x] = db.purchase_methods[x]
              /\ [db' EXCEPT !.purchase_methods = db.purchase_methods] = db]_vars

\* Set Purchase Method has just committed; product 1, seeded with a link method,
\* now has the text method, and product 2 still has none.
C30_Witness ==
    /\ ev.h = "st_setbuy_btn" /\ ev.out = "ok"
    /\ has_purchase_method(db, 1) /\ db.purchase_methods[1].method_type = "text"
    /\ has_product(db, 2) /\ ~has_purchase_method(db, 2)

\* ------------------------------------------------------------------ C27
PurchaseKinds == {"link", "manager", "text"}

\* C27: a selection step moves on only for a token of the option set the store
\* gives at that moment: an existing category, an existing subcategory of the
\* category named with it, one of the three purchase kinds; and every stored
\* purchase method has one of the three kinds.
C27_SelectionFromOptions ==
    /\ [](\A x \in DOMAIN db.purchase_methods :
             db.purchase_methods[x].method_type \in PurchaseKinds)
    /\ [][/\ (ev'.h \in {"cb_pick_cat_for_sub", "cb_prod_pick_cat"} /\ ev'.out = "next")
               => ev'.a \in DOMAIN db.categories
          /\ (ev'.h = "cb_prod_pick_sub" /\ ev'.out = "next")
               => /\ ev'.a[1] \in DOMAIN db.categories
                  /\ ev'.a[2] \in DOMAIN db.subcategories
                  /\ db.subcategories[ev'.a[2]].category_id = ev'.a[1]
          /\ (ev'.h \in {"cb_pm_type", "cb_setbuy_type"} /\ ev'.out = "next")
               => ev'.a \in PurchaseKinds]_vars

\* ------------------------------------------------------------------ C28
\* The URL schemes a link is recognized by.
RecognizedSchemes == {<<"h", "t", "t", "p", ":">>, <<"h", "t", "t", "p", "s", ":">>, <<"t", "g", ":">>}

HasScheme(url) ==
    \E p \in RecognizedSchemes : Len(url) > Len(p) /\ SubSeq(url, 1, Len(p)) = p

\* The payload is valid for its kind.
ValidPayload(kind, payload) ==
    CASE kind = "link" -> "url" \in DOMAIN payload /\ HasScheme(payload["url"])
      [] kind = "manager" ->
            /\ {"username", "template"} \subseteq DOMAIN payload
            /\ payload["username"] # <<>>
            /\ \E i \in 1..Len(payload["template"]) : payload["template"][i] = "{product_id}"
      [] OTHER -> "text" \in DOMAIN payload /\ payload["text"] # <<>>

\* C28: a payload step moves on only with a payload valid for the picked kind, and
\* every stored purchase method has a payload valid for its kind.
C28_PayloadValid ==
    /\ [](\A x \in DOMAIN db.purchase_methods :
             ValidPayload(db.purchase_methods[x].method_type,
                          json_loads(db.purchase_methods[x].payload)))
    /\ [][(ev'.h \in {"st_pm_payload", "st_setbuy_payload"} /\ ev'.out = "next") =>
             ValidPayload(fsm'[ev'.u].data["purchase_type"],
                          fsm'[ev'.u].data["purchase_payload"])]_vars

\* ------------------------------------------------------------------ SpecSteps
\* The forms' steps under good and bad input.  The owner, on a catalog with one
\* product, runs one form after another (a form is opened when none is open): the
\* role form, Add Category, Add Product, Edit Product (title or media) and Set
\* Purchase Method, sending at each step inputs the step accepts and inputs it does
\* not: blank text, a non-numeric id, a photo where text is expected, text where
\* media is expected.
Actor == OWNER_ID

NoFormOpen == fsm[Actor].state = NoState

NextSteps ==
    \/ NoFormOpen /\ cb_role_action(Actor, "set")
    \/ \E m \in {TextMsg(<<"A">>), PhotoMsg("f1"), IdMsg} : st_role_user_id(Actor, m)
    \/ cb_set_role(Actor, "mod")
    \/ NoFormOpen /\ cb_add_cat(Actor)
    \/ \E m \in {BlankMsg, PhotoMsg("f1"), TitleMsg} : st_add_cat_title(Actor, m)
    \/ NoFormOpen /\ cb_add_product(Actor)
    \/ cb_prod_pick_cat(Actor, 1)
    \/ cb_prod_pick_sub(Actor, 1, 1)
    \/ \E m \in {BlankMsg, VideoMsg("f2"), TitleMsg} : st_prod_title(Actor, m)
    \/ \E m \in {SkipMsg, BlankMsg} : st_prod_price(Actor, m)
    \/ st_prod_desc(Actor, SkipMsg)
    \/ \E m \in {SkipMsg, PhotoMsg("f1"), VideoMsg("f2"), TitleMsg, OtherMsg} :
          st_prod_media(Actor, m)
    \/ cb_pm_type(Actor, "text")
    \/ \E m \in {BlankMsg, PhotoMsg("f1"), UrlMsg} : st_pm_payload(Actor, m)
    \/ st_pm_btn(Actor, SkipMsg)
    \/ \E t \in tasks : st_pm_btn_upsert(t)
    \/ \E x \in ProdIds : NoFormOpen /\ cb_edit_product(Actor, x)
    \/ \E f \in {"title", "media"} : cb_ep_field(Actor, f)
    \/ \E m \in {SkipMsg, PhotoMsg("f1"), VideoMsg("f2"), BlankMsg, OtherMsg} :
          st_ep_value(Actor, m)
    \/ NoFormOpen /\ cb_setbuy_start(Actor, 1)
    \/ cb_setbuy_type(Actor, "text")
    \/ \E m \in {BlankMsg, OtherMsg, UrlMsg} : st_setbuy_payload(Actor, m)
    \/ st_setbuy_btn(Actor, SkipMsg)

InitSteps ==
    /\ db = SeedCatalog(db_init(EmptyDb))
    /\ fsm = FreshFsm
    /\ tasks = NoTasks
    /\ ev = Event("sys", OWNER_ID, "db_init", "ok", "", <<>>)
    /\ hist = NoHist

SpecSteps == InitSteps /\ [][NextSteps]_vars

\* ------------------------------------------------------------------ C23
\* The message carries no text: it is no text message, or its text is blank.
NoText(m) == m.kind # "text" \/ \A i \in 1..Len(m.text) : m.text[i] = " "

\* The message is the skip sentinel: the text '-' with blanks around it at most.
IsDash(m) ==
    /\ m.kind = "text"
    /\ \E i \in 1..Len(m.text) :
          m.text[i] = "-" /\ \A j \in 1..Len(m.text) : j # i => m.text[j] = " "

IsMedia(m) == m.kind \in {"photo", "video"}

TitleSteps ==
    {"AddCategory:title", "AddSubcategory:title", "AddProduct:title",
     "EditCategory:new_title", "EditSubcategory:new_title"}

PayloadSteps == {"AddProduct:purchase_payload", "SetBuy:purchase_payload"}

\* The step the form is on and the field being edited.
AtMediaStep(f) ==
    \/ f.state = "AddProduct:media"
    \/ f.state = "EditProduct:value" /\ "field" \in DOMAIN f.data /\ f.data["field"] = "media"

AtEditTitle(f) ==
    f.state = "EditProduct:value" /\ "field" \in DOMAIN f.data /\ f.data["field"] = "title"

\* The input the step's validation rejects: an empty title, something that is no
\* photo, video or skip at a media step, an empty payload, a non-numeric user id.
Rejected(f, m) ==
    \/ (f.state \in TitleSteps \/ AtEditTitle(f)) /\ NoText(m)
    \/ AtMediaStep(f) /\ ~IsMedia(m) /\ ~IsDash(m)
    \/ f.state \in PayloadSteps /\ NoText(m)
    \/ f.state = "RolesManage:user_id"
         /\ (NoText(m) \/ \E i \in 1..Len(m.text) : m.text[i] \notin Digits \cup {" "})

\* C23: a message the current step's validation rejects is answered with a
\* re-prompt and changes nothing: the cursor, the collected fields, every other
\* user's ConversationState, the store and the suspended handlers stay as they were.
C23_RejectedInputKeepsStep ==
    [][(ev'.k = "msg" /\ Rejected(fsm[ev'.u], ev'.a)) =>
          (ev'.out = "reprompt" /\ fsm' = fsm /\ db' = db /\ tasks' = tasks)]_vars

\* A blank payload has just been rejected at the payload step of Add Product: the
\* cursor is still there and the fields collected so far are all present.
C23_Witness ==
    /\ ev.h = "st_pm_payload" /\ ev.out = "reprompt" /\ NoText(ev.a)
    /\ fsm[Actor].state = "AddProduct:purchase_payload"
    /\ DOMAIN fsm[Actor].data =
           {"category_id", "subcategory_id", "title", "price", "description", "media_type",
            "media_file_id", "purchase_type"}
    /\ fsm[Actor].data["media_type"] = "photo"

\* ------------------------------------------------------------------ C25
TextSteps ==
    TitleSteps \cup PayloadSteps \cup
    {"AddProduct:price", "AddProduct:description", "AddProduct:purchase_button_text",
     "SetBuy:purchase_button_text", "EditTexts:value"}

\* C25: at a textual step a message with no text is rejected: the step does not
\* advance and nothing is stored.
C25_NoTextRejected ==
    [][(ev'.k = "msg" /\ fsm[ev'.u].state \in TextSteps /\ NoText(ev'.a)) =>
          (fsm' = fsm /\ db' = db /\ tasks' = tasks)]_vars

\* ------------------------------------------------------------------ C26
\* What a media input stores: (photo, ref), (video, ref) or no media.
MediaOf(m) ==
    IF IsDash(m) THEN <<"", "">> ELSE <<m.kind, m.file>>

\* C26: at the media step of Add Product a photo, a video or the skip sentinel is
\* accepted, the form keeps (photo, ref), (video, ref) or no media and moves on, and
\* the product committed later carries exactly that; at Edit Product with field
\* media the same three inputs set the product's media and close the form; any
\* other input is re-prompted and changes nothing.
C26_MediaStep ==
    /\ [][(ev'.k = "msg" /\ fsm[ev'.u].state = "AddProduct:media") =>
             IF IsMedia(ev'.a) \/ IsDash(ev'.a)
               THEN /\ ev'.out = "next" /\ db' = db
                    /\ fsm'[ev'.u].state = "AddProduct:purchase_type"
                    /\ <<fsm'[ev'.u].data["media_type"], fsm'[ev'.u].data["media_file_id"]>>
                           = MediaOf(ev'.a)
               ELSE ev'.out = "reprompt" /\ fsm' = fsm /\ db' = db]_vars
    /\ [][(ev'.h = "st_pm_btn" /\ ev'.out = "product_added") =>
             \E x \in DOMAIN db'.products \ DOMAIN db.products :
                 <<db'.products[x].media_type, db'.products[x].media_file_id>> =
                     <<fsm[ev'.u].data["media_type"], fsm[ev'.u].data["media_file_id"]>>]_vars
    /\ [][(ev'.k = "msg" /\ AtMediaStep(fsm[ev'.u]) /\ fsm[ev'.u].state = "EditProduct:value") =>
             LET pid == fsm[ev'.u].data["product_id"]
             IN  IF IsMedia(ev'.a) \/ IsDash(ev'.a)
                   THEN /\ ev'.out = "ok" /\ fsm'[ev'.u] = Closed
                        /\ <<db'.products[pid].media_type, db'.products[pid].media_file_id>>
                               = MediaOf(ev'.a)
                        /\ [db' EXCEPT !.products[pid].media_type = db.products[pid].media_type,
                                       !.products[pid].media_file_id =
                                           db.products[pid].media_file_id] = db
                   ELSE ev'.out = "reprompt" /\ fsm' = fsm /\ db' = db]_vars

\* A product added with a video has had its media replaced by a photo through Edit
\* Product, and the seeded product's media removed with the skip sentinel.
C26_Witness ==
    /\ ev.h = "st_ep_value" /\ ev.out = "ok"
    /\ has_product(db, 2) /\ db.products[2].media_type = "photo"
    /\ db.products[2].media_file_id = "f1"
    /\ db.products[1].media_type = ""

\* ------------------------------------------------------------------ SpecDelete
\* A catalog of two categories: category 1 holds subcategory 1 (products 1 with a
\* method and 2 without) and subcategory 2 (product 3 with a method), category 2
\* holds subcategory 3 (product 4 with a method). Admin 2 deletes subcategories and
\* products, also ones already gone, and toggles products with the owner; 3, an
\* ordinary user, presses the delete buttons and is refused.
DeleteCatalog(d) ==
    LET d1 == db_add_category(db_add_category(d, SeedTitle), SeedTitle)
        d2 == db_add_subcategory(db_add_subcategory(db_add_subcategory(d1, 1, SeedTitle),
                                                    1, SeedTitle), 2, SeedTitle)
        d3 == db_add_product(d2, 1, SeedTitle, <<>>, <<>>, "", "")
        d4 == db_add_product(d3, 1, SeedTitle, <<>>, <<>>, "", "")
        d5 == db_add_product(d4, 2, SeedTitle, <<>>, <<>>, "", "")
        d6 == db_add_product(d5, 3, SeedTitle, <<>>, <<>>, "", "")
        d7 == db_upsert_purchase_method(d6, 1, "link", make_payload("link", SeedUrl), BUY_DEFAULT)
        d8 == db_upsert_purchase_method(d7, 3, "text", make_payload("text", SeedTitle), BUY_DEFAULT)
    IN  db_upsert_purchase_method(d8, 4, "text", make_payload("text", SeedTitle), BUY_DEFAULT)

InitDelete ==
    /\ db = DeleteCatalog(db_set_role(db_init(EmptyDb), FormUser, "admin"))
    /\ fsm = FreshFsm
    /\ tasks = NoTasks
    /\ ev = Event("sys", OWNER_ID, "db_init", "ok", "", <<>>)
    /\ hist = NoHist

NextDelete ==
    \/ \E u \in {FormUser, 3}, x \in SubIds :
          x \in DOMAIN db.subcategories /\ cb_sub_delete_yes(u, db.subcategories[x].category_id, x)
    \/ \E x \in SubIds : x \notin DOMAIN db.subcategories /\ cb_sub_delete_yes(FormUser, 1, x)
    \/ \E u \in {FormUser, 3}, x \in ProdIds : cb_prod_delete_yes(u, x)
    \/ \E u \in {FormUser, OWNER_ID}, x \in ProdIds : cb_toggle(u, x)

SpecDelete == InitDelete /\ [][NextDelete]_vars

\* ------------------------------------------------------------------ C31
\* the rows of table f whose key passes keep
Kept(f, keep) == [x \in {y \in DOMAIN f : keep[y]} |-> f[x]]

\* C31: a confirmed subcategory delete removes that subcategory, the products under
\* it and their purchase methods and nothing else; a confirmed product delete
\* removes that product and its purchase method and nothing else. Every other row
\* of the three tables is kept as it was, and the categories, the settings and the
\* roles do not change.
C31_DeleteRemovesExactly ==
    /\ [][(ev'.h = "cb_sub_delete_yes" /\ ev'.out = "ok") =>
             LET gone == {x \in DOMAIN db.products : db.products[x].subcategory_id = ev'.a}
             IN  /\ db'.subcategories =
                        Kept(db.subcategories, [y \in DOMAIN db.subcategories |-> y # ev'.a])
                 /\ db'.products = Kept(db.products, [y \in DOMAIN db.products |-> y \notin gone])
                 /\ db'.purchase_methods =
                        Kept(db.purchase_methods,
                             [y \in DOMAIN db.purchase_methods |-> y \notin gone])
                 /\ db'.categories = db.categories /\ db'.settings = db.settings
                 /\ db'.users = db.users]_vars
    /\ [][(ev'.h = "cb_prod_delete_yes" /\ ev'.out = "ok") =>
             /\ db'.products = Kept(db.products, [y \in DOMAIN db.products |-> y # ev'.a])
             /\ db'.purchase_methods =
                    Kept(db.purchase_methods, [y \in DOMAIN db.purchase_methods |-> y # ev'.a])
             /\ db'.subcategories = db.subcategories /\ db'.categories = db.categories
             /\ db'.settings = db.settings /\ db'.users = db.users]_vars

\* Subcategory 1 has just been deleted with its two products and the one method;
\* its sibling 2 and the other category's subcategory 3 still hold their products
\* and methods.
C31_Witness ==
    /\ ev.h = "cb_sub_delete_yes" /\ ev.out = "ok" /\ ev.a = 1
    /\ DOMAIN db.subcategories = {2, 3}
    /\ DOMAIN db.products = {3, 4}
    /\ DOMAIN db.purchase_methods = {3, 4}
    /\ DOMAIN db.categories = {1, 2}

\* ------------------------------------------------------------------ SpecTexts
\* Admin 2 edits the settings: the callbacks carry two of the keys the menu offers
\* and one it does not offer; the values are a text, the skip sentinel and a blank
\* line. 3, an ordinary user, presses the same buttons.
TextKeys == {"start_text", "support_text", "promo"}

InitTexts ==
    /\ db = db_set_role(db_init(EmptyDb), FormUser, "admin")
    /\ fsm = FreshFsm
    /\ tasks = NoTasks
    /\ ev = Event("sys", OWNER_ID, "db_init", "ok", "", <<>>)
    /\ hist = NoHist

NextTexts ==
    \/ \E u \in {FormUser, 3}, k \in TextKeys : cb_txt_pick(u, k)
    \/ \E m \in {TitleMsg, SkipMsg, BlankMsg} : st_txt_value(FormUser, m)

SpecTexts == InitTexts /\ [][NextTexts]_vars

\* ------------------------------------------------------------------ C32
\* C32: every key in the settings store is one of the four recognized keys; the
\* pick-key step refuses any other key; the text shown for a recognized key without
\* a row is its default.
C32_SettingsKeysRecognized ==
    /\ [](DOMAIN db.settings \subseteq DOMAIN DEFAULT_SETTINGS)
    /\ [][(ev'.h = "cb_txt_pick" /\ ev'.a \notin DOMAIN DEFAULT_SETTINGS) =>
             (ev'.out # "ok" /\ fsm' = fsm)]_vars
    /\ [][(ev'.h = "cb_txt_pick" /\ ev'.out = "ok" /\ ev'.a \in DOMAIN DEFAULT_SETTINGS
             /\ ev'.a \notin DOMAIN db.settings) => ev'.v = <<DEFAULT_SETTINGS[ev'.a]>>]_vars

\* ------------------------------------------------------------------ C33
\* The commit steps that insert a row under a parent.
InsertingSteps == {"st_add_sub_title", "st_pm_btn", "st_setbuy_btn"}

\* C33: no commit step attempts an insert whose parent row no longer exists: the
\* subcategory's category, the product's subcategory and the purchase method's
\* product are in the store when the form commits, so no insert is refused by a
\* foreign key.
C33_NoOrphanInsertAttempted ==
    [][ev'.h \in InsertingSteps =>
          /\ ev'.out # "IntegrityError"
          /\ (ev'.h = "st_add_sub_title" /\ ev'.out = "ok") =>
                 fsm[ev'.u].data["category_id"] \in DOMAIN db.categories]_vars

\* ------------------------------------------------------------------ SpecProgress
\* The owner fills one form after another on the seeded catalog, one event per
\* turn: a form is opened when none is open, each prompt is answered after the
\* previous answer has been handled, with a valid input or with one the step
\* rejects. The owner keeps the role owner and nothing is deleted. A form that
\* inserts a row is opened while the table has room for that row.
NoPending == \A t \in tasks : t.u # Actor

Entry ==
    /\ NoFormOpen /\ NoPending
    /\ \/ CanInsert(db, "categories") /\ cb_add_cat(Actor)
       \/ CanInsert(db, "subcategories") /\ cb_add_sub(Actor)
       \/ CanInsert(db, "products") /\ cb_add_product(Actor)
       \/ \E a \in {"set", "unset"} : cb_role_action(Actor, a)
       \/ cb_edit_product(Actor, 1)
       \/ cb_setbuy_start(Actor, 1)
       \/ cb_txt_pick(Actor, "start_text")

ValidStep ==
    /\ NoPending
    /\ \/ st_add_cat_title(Actor, TitleMsg)
       \/ cb_pick_cat_for_sub(Actor, 1)
       \/ st_add_sub_title(Actor, TitleMsg)
       \/ cb_prod_pick_cat(Actor, 1)
       \/ cb_prod_pick_sub(Actor, 1, 1)
       \/ st_prod_title(Actor, TitleMsg)
       \/ st_prod_price(Actor, SkipMsg)
       \/ st_prod_desc(Actor, SkipMsg)
       \/ st_prod_media(Actor, PhotoMsg("f1"))
       \/ cb_pm_type(Actor, "text")
       \/ st_pm_payload(Actor, UrlMsg)
       \/ st_pm_btn(Actor, SkipMsg)
       \/ st_role_user_id(Actor, IdMsg)
       \/ cb_set_role(Actor, "mod")
       \/ \E f \in {"title", "media"} : cb_ep_field(Actor, f)
       \/ \E m \in {TitleMsg, PhotoMsg("f1")} :
             /\ fsm[Actor].state = "EditProduct:value"
             /\ m.kind = "photo" <=> fsm[Actor].data["field"] = "media"
             /\ st_ep_value(Actor, m)
       \/ cb_setbuy_type(Actor, "text")
       \/ st_setbuy_payload(Actor, UrlMsg)
       \/ st_setbuy_btn(Actor, SkipMsg)
       \/ st_txt_value(Actor, TitleMsg)

InvalidStep ==
    /\ NoPending
    /\ \/ st_add_cat_title(Actor, BlankMsg)
       \/ st_add_sub_title(Actor, PhotoMsg("f1"))
       \/ \E c \in CatIds : db_get_subcategories(db, c) = <<>> /\ cb_prod_pick_cat(Actor, c)
       \/ st_prod_title(Actor, BlankMsg)
       \/ st_prod_media(Actor, TitleMsg)
       \/ st_pm_payload(Actor, BlankMsg)
       \/ st_role_user_id(Actor, TitleMsg)
       \/ st_ep_value(Actor, BlankMsg)
       \/ st_setbuy_payload(Actor, PhotoMsg("f1"))
       \/ st_txt_value(Actor, BlankMsg)

Resume == \E t \in tasks : st_pm_btn_upsert(t)

InitProgress ==
    /\ db = SeedCatalog(db_init(EmptyDb))
    /\ fsm = FreshFsm
    /\ tasks = NoTasks
    /\ ev = Event("sys", OWNER_ID, "db_init", "ok", "", <<>>)
    /\ hist = NoHist

NextProgress == Entry \/ ValidStep \/ InvalidStep \/ Resume

\* The user goes on answering the prompt with a valid input, which moves the cursor
\* or suspends the committing handler, and a suspended handler is resumed by the
\* event loop.
SpecProgress ==
    /\ InitProgress /\ [][NextProgress]_vars
    /\ WF_<<fsm, tasks>>(ValidStep) /\ WF_<<fsm, tasks>>(Resume)

\* ------------------------------------------------------------------ C34
\* The steps a form still has to take from a cursor position.
StepsLeft(f) ==
    CASE f.state = NoState -> 0
      [] f.state \in {"AddCategory:title", "AddSubcategory:title", "RolesManage:role",
                      "EditProduct:value", "EditTexts:value",
                      "AddProduct:purchase_button_text", "SetBuy:purchase_button_text"} -> 1
      [] f.state = "RolesManage:user_id" -> IF f.data["action"] = "set" THEN 2 ELSE 1
      [] f.state \in {"AddSubcategory:pick_category", "EditProduct:field",
                      "AddProduct:purchase_payload", "SetBuy:purchase_payload"} -> 2
      [] f.state \in {"AddProduct:purchase_type", "SetBuy:product_id"} -> 3
      [] f.state = "AddProduct:media" -> 4
      [] f.state = "AddProduct:description" -> 5
      [] f.state = "AddProduct:price" -> 6
      [] f.state = "AddProduct:title" -> 7
      [] f.state = "AddProduct:pick_subcategory" -> 8
      [] f.state = "AddProduct:pick_category" -> 9

\* The steps the user's open form still has to take; none once its commit runs.
Left == IF NoPending THEN StepsLeft(fsm[Actor]) ELSE 0

\* The number of steps of the form an entry event opens.
FormLength(e) ==
    CASE e.h \in {"cb_add_cat", "cb_txt_pick"} -> 1
      [] e.h \in {"cb_add_sub", "cb_edit_product"} -> 2
      [] e.h = "cb_setbuy_start" -> 3
      [] e.h = "cb_add_product" -> 9
      [] e.h = "cb_role_action" -> IF e.a = "set" THEN 2 ELSE 1

\* The input is one the step it arrives at takes: a text where a text is required,
\* a photo, video or skip at a media step, digits at the user id step, a category
\* that has subcategories at the category step of Add Product.
ValidInput(f, e) ==
    IF e.k = "msg"
      THEN ~Rejected(f, e.a) /\ ~(f.state = "EditTexts:value" /\ NoText(e.a))
      ELSE f.state = "AddProduct:pick_category" =>
               \E x \in DOMAIN db.subcategories : db.subcategories[x].category_id = e.a

\* What a step can be told from the previous one by: the store, the forms, the
\* suspended handlers, and who sent what kind of event to which handler with which
\* answer.
Seen == <<db, fsm, tasks, ev.k, ev.u, ev.h, ev.out>>

\* C34: an entry opens the form at its first step; a valid input takes the form
\* exactly one step further, a rejected one leaves it where it is, and the form
\* closes only from its last step: the commit is reached after as many accepted
\* inputs as the form has steps (one for Add Category, nine for Add Product). A
\* form that is open is eventually closed.
C34_FormsTerminate ==
    /\ [][(ev'.h \in EntryHandlers /\ ev'.k = "cb") =>
             (ev'.out = "ok" /\ Left = 0 /\ Left' = FormLength(ev'))]_Seen
    /\ [][(ev'.k \in {"msg", "cb"} /\ ev'.h \notin EntryHandlers) =>
             IF ValidInput(fsm[Actor], ev')
               THEN Left >= 1 /\ Left' = Left - 1
               ELSE Left' = Left /\ fsm' = fsm /\ db' = db]_Seen
    /\ [][(fsm[Actor].state # NoState /\ fsm'[Actor].state = NoState) =>
             (StepsLeft(fsm[Actor]) = 1 /\ tasks' = NoTasks)]_Seen
    /\ (fsm[Actor].state # NoState) ~> (fsm[Actor].state = NoState /\ NoPending)

\* The commit of Add Product has just run: the second product and its purchase
\* method are stored with what the nine steps collected, and no form is open.
C34_Witness ==
    /\ ev.k = "task" /\ ev.h = "st_pm_btn" /\ ev.out = "ok"
    /\ fsm[Actor] = Closed /\ tasks = NoTasks
    /\ has_product(db, 2) /\ has_purchase_method(db, 2)
    /\ db.products[2].title = <<"A">> /\ db.products[2].media_type = "photo"
    /\ db.purchase_methods[2].method_type = "text"

\* ------------------------------------------------------------------ C35
\* C35: no step of the /start handler for a user other than the owner changes the
\* role the gate reads for that user, whatever the owner's role form does between
\* the handler's read and its write.
C35_StartKeepsRole ==
    [][(ev'.h = "start" /\ ev'.u # OWNER_ID) =>
          db_get_role(db', ev'.u) = db_get_role(db, ev'.u)]_vars

\* ------------------------------------------------------------------ C36
\* C36: a buy event from a user of role user for a product that is inactive when
\* the event is handled is not answered with the purchase dispatch, also when the
\* button pressed was shown while the product was active.
C36_NoDispatchForInactive ==
    [][(/\ ev'.h = "cb_buy" /\ db_get_role(db, ev'.u) = "user"
        /\ has_product(db, ev'.a) /\ db.products[ev'.a].is_active # 1) =>
          ev'.out # "dispatch"]_vars

\* ------------------------------------------------------------------ SpecGrant
\* The owner and user 2 run the role form on 2 and 3. The callback of the role step
\* carries one of the two roles the keyboard offers, or a token it does not offer.
RoleTokens == {"admin", "mod", "owner", "boss"}

NextGrant ==
    \/ \E u \in {OWNER_ID, 2}, a \in {"set", "unset"} : cb_role_action(u, a)
    \/ \E u \in {OWNER_ID, 2}, m \in {TextMsg(<<"2">>), IdMsg} : st_role_user_id(u, m)
    \/ \E u \in {OWNER_ID, 2}, r \in RoleTokens : cb_set_role(u, r)

SpecGrant == Init /\ [][NextGrant]_vars

\* ------------------------------------------------------------------ C37
\* C37: only the configured owner identity holds the role owner, and the role the
\* grant step stores is mod or admin.
C37_OnlyOwnerIsOwner ==
    /\ [](\A u \in DOMAIN db.users : db.users[u] = "owner" => u = OWNER_ID)
    /\ [][(ev'.h = "cb_set_role" /\ ev'.out = "ok") =>
             db'.users[fsm[ev'.u].data["target_user_id"]] \in {"mod", "admin"}]_vars

\* ------------------------------------------------------------------ SpecToggle
\* Moderator 2 and the owner toggle the two products of the listing store, with the
\* presses of both in flight at once; visitor 3 presses the same buttons and is
\* refused; the owner deletes product 2, whose toggle buttons stay on screen.
InitToggle ==
    /\ db = ListingDb([x \in 1..2 |-> 0], [x \in 1..2 |-> 0], [x \in 1..2 |-> 0])
    /\ fsm = FreshFsm
    /\ tasks = NoTasks
    /\ ev = Event("sys", OWNER_ID, "db_init", "ok", "", <<>>)
    /\ hist = NoHist

NextToggle ==
    \/ \E u \in Uids, x \in ProdIds : cb_toggle_gate(u, x)
    \/ \E t \in tasks : cb_toggle_write(t)
    \/ cb_prod_delete_yes(OWNER_ID, 2)
    \/ \E x \in ProdIds : cb_product(Visitor, x)

SpecToggle == InitToggle /\ [][NextToggle]_vars

\* ------------------------------------------------------------------ C38
\* C38: toggling a product twice gives the store back as it was; the write of a
\* toggle flips the active flag of its product, if the product exists, and changes
\* nothing else; when the toggles of two staff users on the same product are in
\* flight together, the second write undoes the first.
C38_ToggleInvolution ==
    /\ [](\A x \in ProdIds :
             db_toggle_product_active(db_toggle_product_active(db, x), x) = db)
    /\ [][(ev'.k = "task" /\ ev'.h = "cb_toggle") =>
             IF has_product(db, ev'.a)
               THEN /\ db'.products[ev'.a].is_active = 1 - db.products[ev'.a].is_active
                    /\ [db' EXCEPT !.products[ev'.a].is_active =
                                       db.products[ev'.a].is_active] = db
               ELSE db' = db]_vars
    /\ [][(/\ ev'.k = "task" /\ ev'.h = "cb_toggle"
           /\ \E t \in tasks' : t.h = "cb_toggle" /\ t.pid = ev'.a /\ t.u # ev'.u) =>
             \A t \in tasks' :
                 (t.h = "cb_toggle" /\ t.pid = ev'.a) =>
                     db_toggle_product_active(db', t.pid) = db]_vars

\* The owner's toggle of product 1 has been written while the moderator's toggle
\* of the same product is still in flight.
C38_Witness ==
    /\ ev.k = "task" /\ ev.h = "cb_toggle" /\ ev.u = OWNER_ID /\ ev.a = 1
    /\ ToggleTask(Moderator, 1) \in tasks
    /\ db.products[1].is_active = 0

\* ------------------------------------------------------------------ C39
\* The steps after which the form is still open.
IntermediateSteps ==
    {"cb_pick_cat_for_sub", "cb_prod_pick_cat", "cb_prod_pick_sub", "st_prod_title",
     "st_prod_price", "st_prod_desc", "st_prod_media", "cb_pm_type", "st_pm_payload",
     "cb_ep_field", "cb_setbuy_type", "st_setbuy_payload"}

\* The user-id step of the role form is the last step of a revoke and an
\* intermediate step of a grant.
GrantUserIdStep ==
    /\ ev'.h = "st_role_user_id"
    /\ "action" \in DOMAIN fsm[ev'.u].data /\ fsm[ev'.u].data["action"] = "set"

\* C39: a form's entry handler and every step before its last one leave the
\* catalog, the purchase methods, the settings and the roles as they were, suspend
\* nothing and touch no other user's ConversationState: only the sender's cursor
\* and collected fields change.
C39_OnlyFinalStepWrites ==
    [][(/\ ev'.k \in {"msg", "cb"}
        /\ (ev'.h \in EntryHandlers \cup IntermediateSteps \/ GrantUserIdStep)) =>
          /\ db' = db /\ tasks' = tasks
          /\ \A v \in Uids \ {ev'.u} : fsm'[v] = fsm[v]]_vars

\* The payload step of Add Product has just accepted its input: eight steps are
\* done, the fields are collected, and the store is still the seeded one.
C39_Witness ==
    /\ ev.h = "st_pm_payload" /\ ev.out = "next"
    /\ fsm[Actor].state = "AddProduct:purchase_button_text"
    /\ PmBtnKeys \subseteq DOMAIN fsm[Actor].data
    /\ db = SeedCatalog(db_init(EmptyDb))

====
